---- MODULE Spec2Model ----
(***************************************************************************)
(* Listing Manager (P2PVPS/listing-manager).                               *)
(*                                                                         *)
(* src/lib/util.js holds the helper operations (lines 1-766) and the three *)
(* timer-driven loops fulfillNewOrders, checkRentedDevices and             *)
(* checkListedDevices together with loginAdmin and resetConfig (lines      *)
(* 768-1201).  Every `await` of a remote call is a suspension point: one   *)
(* action of this module resolves one awaited call (the remote effect and  *)
(* its response) and runs the JavaScript that follows it up to the next    *)
(* awaited remote call.                                                    *)
(*                                                                         *)
(* Time is counted in minutes since the epoch: the source's 60000 (ms) is  *)
(* Minute here.  An ISO date string is represented by the time it denotes; *)
(* an absent or unparsable date by INVALID_DATE (JavaScript's NaN time).   *)
(***************************************************************************)
EXTENDS Integers, Sequences, FiniteSets, TLC

VARIABLES
  devices,       \* rental API: device id -> devicePublicModel
  privs,         \* rental API: private-record id -> devicePrivateModel
  rented,        \* rental API: the rentedDevices list (sequence of device ids)
  contracts,     \* rental API: contract id -> obContract model
  listings,      \* marketplace: active listings (sequence of slugs)
  notes,         \* marketplace: notifications, in the order the API returns them
  fulfillCount,  \* marketplace: order id -> number of accepted fulfillOrder calls
  orders,        \* marketplace: order id -> the payment received and the refund address
  config,        \* the object the global variable `config` refers to
  pobjs,         \* heap of devicePrivateModel objects fetched by the ticks
  loc,           \* per running callback: program position and local variables
  clock,         \* the wall clock read by `new Date()`
  fails,         \* number of remote calls that have failed so far
  ticks,         \* number of timer callbacks started so far
  hist           \* per callback: what its current (or last) tick has done

remoteVars == <<devices, privs, rented, contracts, listings, notes, fulfillCount, orders>>
vars == <<devices, privs, rented, contracts, listings, notes, fulfillCount, orders,
          config, pobjs, loc, clock, fails, ticks, hist>>

(***************************************************************************)
(* Bounds of the model.                                                    *)
(***************************************************************************)
\* remote calls that may fail in one behaviour
MaxFails == 1
\* minutes the clock may advance in one behaviour
MaxClock == 2
\* timer callbacks that may start in one behaviour
MaxTicks == 2
\* the largest payment of an order whose fee is computed
MaxPrice == 20
\* the number of times loginAdmin is entered in a behaviour
MaxAttempts == 4
\* the time at which a behaviour starts
StartTime == 100

(***************************************************************************)
(* Program constants.                                                      *)
(***************************************************************************)
Minute == 1
MAX_DELAY == Minute * 10
BUFFER == Minute * 5
FEE_PERCENTAGE == 10
INVALID_DATE == -1
NULL == "null"

(***************************************************************************)
(* Strings are sequences of one-character strings.                         *)
(***************************************************************************)
RECURSIVE SplitFrom(_, _, _)
SplitFrom(s, i, cur) ==
  IF i > Len(s) THEN <<cur>>
  ELSE IF s[i] = "-" THEN <<cur>> \o SplitFrom(s, i + 1, <<>>)
  ELSE SplitFrom(s, i + 1, Append(cur, s[i]))

\* String.prototype.split("-")
Split(s) == SplitFrom(s, 1, <<>>)

\* the first token instead of the last
LastToken_First(s) == Split(s)[1]

\* tmp[tmp.length - 1]
LastToken(s) == Split(s)[Len(Split(s))]

\* String.prototype.indexOf(sub): the first 0-based position, or -1
IndexOf(s, sub) ==
  LET hits == {i \in 1..(Len(s) - Len(sub) + 1) : SubSeq(s, i, i + Len(sub) - 1) = sub}
  IN IF hits = {} THEN -1 ELSE (CHOOSE i \in hits : \A j \in hits : i <= j) - 1

Join(a, b) == a \o <<"-">> \o b

RENEWAL == <<"r", "e", "n", "e", "w", "a", "l">>
WIDGET == <<"v", "p", "s">>

\* 24-character identifiers as MongoDB generates them
DevA == [i \in 1..24 |-> IF i = 24 THEN "1" ELSE "a"]
DevB == [i \in 1..24 |-> IF i = 24 THEN "2" ELSE "a"]
DeviceIds == {DevA, DevB}
\* the identifier of a device the rental API has no record of
DevC == [i \in 1..24 |-> IF i = 24 THEN "3" ELSE "a"]

PrivOf(d) == IF d = DevA THEN "pa" ELSE "pb"
ContractOf(d) == IF d = DevA THEN "ka" ELSE "kb"
RentalSlug(d) == Join(WIDGET, d)
RenewalSlug(d) == Join(Join(WIDGET, RENEWAL), d)

(***************************************************************************)
(* Dates.                                                                  *)
(***************************************************************************)
\* new Date(str).getTime()
GetTime(str) == IF str = INVALID_DATE THEN INVALID_DATE ELSE str

\* Date.prototype.toISOString throws a RangeError on an invalid date
CanISOString(t) == t # INVALID_DATE

Plus(t, d) == IF t = INVALID_DATE THEN INVALID_DATE ELSE t + d

(***************************************************************************)
(* Errors.  statusCode 0 stands for `undefined`; error is the error text   *)
(* of the answer's body, NoBody for an answer without body.                *)
(***************************************************************************)
NoBody == "no body"

Err(code, name, error) == [statusCode |-> code, name |-> name, error |-> error]
E500 == Err(500, "StatusCodeError", "")
E500db == Err(500, "StatusCodeError", "database error")
E500nf == Err(500, "StatusCodeError", "not found")
E404 == Err(404, "StatusCodeError", "")
ENet == Err(0, "RequestError", "")
ETypeError == Err(0, "TypeError", "")
EReferenceError == Err(0, "ReferenceError", "")
ERangeError == Err(0, "RangeError", "")
EString == Err(0, "string", "")
EObject == Err(0, "object", "")
NoErr == Err(0, "none", "")

\* the ways a remote call can fail on its own
RemoteErrors == {E500, E404, ENet}

(***************************************************************************)
(* updateExpiration, lines 122-200.                                        *)
(***************************************************************************)
TargetTime(timeSelector) ==
  CASE timeSelector = 0 -> 0
    [] timeSelector = 10 -> Minute * 8
    [] timeSelector = 20 -> Minute * 60
    [] timeSelector = 30 -> Minute * 60 * 24
    [] timeSelector = 40 -> Minute * 60 * 24 * 7
    [] timeSelector = 50 -> Minute * 60 * 24 * 30
    [] OTHER -> 0

\* a variant that counts from the current time for a renewal too
NewExpiration_FromNow(isRenewal, now, oldExpiration, targetTime) == now + targetTime

\* lines 163-175: the time whose ISO string is stored in data.device.expiration
NewExpiration(isRenewal, now, oldExpiration, targetTime) ==
  IF ~isRenewal
  THEN now + targetTime
  ELSE Plus(GetTime(oldExpiration), targetTime)

(***************************************************************************)
(* Shapes of the state.                                                    *)
(***************************************************************************)
\* Each setInterval callback may start again while its previous call still
\* waits for an answer: two calls of each loop body can be at work.
FProcs == {"f1", "f2"}
RProcs == {"rented", "rented2"}
LProcs == {"listed", "listed2"}
Procs == FProcs \cup RProcs \cup LProcs \cup {"caller", "login"}

Kind(p) ==
  CASE p \in FProcs -> "fulfill"
    [] p \in RProcs -> "rented"
    [] p \in LProcs -> "listed"
    [] OTHER -> p

\* r with the fields of s overwritten
Upd(r, s) == [k \in DOMAIN r |-> IF k \in DOMAIN s THEN s[k] ELSE r[k]]

\* An optional value is <<>> (undefined) or <<v>>.
\* cfg = <<>>: the helper's `config` parameter is the object the global
\* variable still refers to; <<c>>: it is an object the global variable no
\* longer refers to (resetConfig has replaced it), with value c.
Idle ==
  [pc |-> "idle", cfg |-> <<>>, thisNotice |-> <<>>, deviceId |-> <<>>,
   devicePublicModel |-> <<>>, targetTime |-> 0, data |-> <<>>,
   deviceData |-> <<>>, obContractId |-> NULL, obContractModel |-> <<>>,
   site |-> "", list |-> <<>>, i |-> 0, now |-> 0, thisSlug |-> <<>>,
   publicData |-> <<>>, listingSlug |-> <<>>, timeSelector |-> 0,
   orderId |-> "", noteId |-> "", body |-> <<>>, bodyId |-> "", guid |-> <<>>,
   answer |-> <<>>]

NoHist ==
  [log |-> <<>>, result |-> "none", err |-> NoErr, notice |-> "", ue |-> <<>>,
   examined |-> <<>>, due |-> <<>>, attempted |-> <<>>, list |-> <<>>,
   alone |-> TRUE, dup |-> FALSE, valid |-> <<>>, outcome |-> <<>>]

\* lines 839-854: the object `config` refers to after start-up.  The fields
\* obNotice, devicePrivateData and expiration are not set (undefined).
InitialConfig ==
  [apiCredentials |-> "Basic", clientId |-> "yourUsername", adminUser |-> "system",
   adminPass |-> "", jwt |-> "", isRenewal |-> FALSE,
   obNotice |-> <<>>, devicePrivateData |-> 0, expiration |-> INVALID_DATE]

\* lines 1187-1201: the object resetConfig() makes `config` refer to
ResetConfigValue(old) ==
  [apiCredentials |-> "Basic", clientId |-> NULL, adminUser |-> "system",
   adminPass |-> old.adminPass, jwt |-> old.jwt, isRenewal |-> FALSE,
   obNotice |-> <<>>, devicePrivateData |-> 0, expiration |-> INVALID_DATE]

\* the object a helper's `config` parameter refers to
CfgOf(l) == IF l.cfg = <<>> THEN config ELSE l.cfg[1]

Device(id, checkin, expiration, contract) ==
  [_id |-> id, checkinTimeStamp |-> checkin, expiration |-> expiration,
   privateData |-> PrivOf(id), obContract |-> contract]

Contract(slug, experation) == [listingSlug |-> slug, experation |-> experation]

Private(id, payments) == [_id |-> id, payments |-> payments]

Note(id, type, orderId, slug) ==
  [notificationId |-> id, type |-> type, read |-> FALSE, orderId |-> orderId, slug |-> slug]

\* the marketplace's record of an order: the payment received and the
\* buyer's refund address (read at lines 551 and 563)
Order(value, refundAddress) == [value |-> value, refundAddress |-> refundAddress]

\* openbazaar.getOrder(config, orderId), line 547
OrderInfo(orderId) == orders[orderId]

(***************************************************************************)
(* The end of a tick, and the steps shared by all callbacks.               *)
(***************************************************************************)
\* devicePrivateModel objects that no config object refers to are dropped
Collect(c, l, objs) ==
  IF /\ c.devicePrivateData = 0
     /\ \A q \in Procs : l[q].cfg = <<>> \/ l[q].cfg[1].devicePrivateData = 0
  THEN <<>>
  ELSE objs

EndTick(p, h) ==
  /\ loc' = [loc EXCEPT ![p] = Idle]
  /\ hist' = [hist EXCEPT ![p] = h]
  /\ config' = config
  /\ pobjs' = Collect(config', loc', pobjs)

\* the callback returns
Return(p, h) == EndTick(p, [h EXCEPT !.result = "returned"])

\* the loop body without its catch block: the callback's promise is
\* rejected with the error
Catch_Escape(p, h, err) == EndTick(p, [h EXCEPT !.result = "escaped", !.err = err])

\* the catch block of the loop body (lines 988-998, 1044-1057, 1158-1176):
\* the error is logged and the callback ends
Catch(p, h, err) == EndTick(p, [h EXCEPT !.result = "caught", !.err = err])

\* the callback goes on to its next awaited call
Goto(p, l, h) ==
  /\ loc' = [loc EXCEPT ![p] = l]
  /\ hist' = [hist EXCEPT ![p] = h]
  /\ UNCHANGED <<config, pobjs>>

Logged(h, ev) == [h EXCEPT !.log = Append(@, ev)]

(***************************************************************************)
(* The answers of the two remote services.  A call succeeds, fails because *)
(* of the state of the service (a missing record), or fails on its own     *)
(* (server or network trouble; at most MaxFails times in a behaviour).     *)
(***************************************************************************)
Ok == [ok |-> TRUE, err |-> NoErr, injected |-> FALSE]
Natural(e) == [ok |-> FALSE, err |-> e, injected |-> FALSE]
Injected == {[ok |-> FALSE, err |-> e, injected |-> TRUE] : e \in RemoteErrors}

Responses(present, missingErrs) ==
  (IF present THEN {Ok} ELSE {Natural(e) : e \in missingErrs}) \cup Injected

Count(r) ==
  /\ r.injected => fails < MaxFails
  /\ fails' = IF r.injected THEN fails + 1 ELSE fails

(***************************************************************************)
(* getNewOBNotifications, lines 286-307.                                   *)
(***************************************************************************)
RECURSIVE Unread(_)
Unread(ns) ==
  IF ns = <<>> THEN <<>>
  ELSE IF ~Head(ns).read THEN <<Head(ns)>> \o Unread(Tail(ns))
  ELSE Unread(Tail(ns))

\* the marketplace's answer: the notifications and the count of unread ones
AllNotifications == [unread |-> Len(Unread(notes)), notifications |-> notes]

\* the function without its filter
GetNewOBNotifications_All(allNotifications) == allNotifications.notifications

\* the function returning the unread orders only
GetNewOBNotifications_Orders(allNotifications) ==
  SelectSeq(Unread(allNotifications.notifications), LAMBDA n : n.type = "order")

GetNewOBNotifications(allNotifications) ==
  IF allNotifications.unread = 0 THEN <<>>
  ELSE Unread(allNotifications.notifications)

(***************************************************************************)
(* validateGuid, lines 491-497: /^[a-f\d]{24}$/i                           *)
(***************************************************************************)
HexChars ==
  {"0", "1", "2", "3", "4", "5", "6", "7", "8", "9",
   "a", "b", "c", "d", "e", "f", "A", "B", "C", "D", "E", "F"}

\* the regular expression without its end anchor
ValidateGuid_Unanchored(guid) ==
  Len(guid) >= 24 /\ \A i \in 1..24 : guid[i] \in HexChars

\* lines 494-496: re.test(guid) for a string guid
ValidateGuid(guid) == Len(guid) = 24 /\ \A i \in 1..Len(guid) : guid[i] \in HexChars

\* A JavaScript value is its typeof and its text.
JsValue(typeof, text) == [typeof |-> typeof, text |-> text]

\* lines 491-497: validateGuid(guid) for a guid of any type
ValidateGuidValue(guid) ==
  IF guid.typeof # "string" THEN FALSE ELSE ValidateGuid(guid.text)

(***************************************************************************)
(* What a callback does when a helper has returned, up to its next awaited *)
(* call.                                                                   *)
(***************************************************************************)
\* addPaymentObject, lines 541-547: `config` is the object the global
\* variable refers to now; reading config.obNotice.notification of an object
\* without obNotice is a TypeError, rethrown at line 590
AddPaymentObjectCall(p, l, h) ==
  IF config.obNotice = <<>>
  THEN Catch(p, Logged(h, "fail_addPaymentObject"), ETypeError)
  ELSE Goto(p, Upd(l, [pc |-> "pay_order", cfg |-> <<>>,
                       orderId |-> config.obNotice[1].orderId]), h)

\* checkListedDevices, lines 1074-1088: the for loop from index j on, up to
\* the call of getDevicePublicModel for the first slug whose last token is a
\* valid identifier
\* the for loop without the identifier validation
NextValid_All(list, j) == IF j > Len(list) THEN 0 ELSE j

RECURSIVE NextValid(_, _)
NextValid(list, j) ==
  IF j > Len(list) THEN 0
  ELSE IF ValidateGuid(LastToken(list[j])) THEN j
  ELSE NextValid(list, j + 1)

L_Continue(p, l, h, from) ==
  \E list \in {l.list} : \E j \in {NextValid(list, from)} :
    IF j = 0
    THEN Return(p, h)
    ELSE \E thisDeviceId \in {LastToken(list[j])} :
           Goto(p, Upd(l, [pc |-> "l_public", cfg |-> <<>>, i |-> j,
                           thisSlug |-> list[j],
                           deviceId |-> thisDeviceId]),
                [h EXCEPT !.examined = Append(@, thisDeviceId)])

\* removeOBListing has returned `ok`: lines 980-983 of fulfillNewOrders go on
\* whatever it returned; lines 1121-1124 and 1133-1136 of checkListedDevices
\* return, lines 1148-1155 go on with the next listing
AfterRemoveOBListing(p, l, h, ok) ==
  LET hh == IF ok THEN h ELSE Logged(h, "fail_removeOBListing")
  IN CASE Kind(p) = "fulfill" -> AddPaymentObjectCall(p, l, hh)
       [] Kind(p) = "listed" /\ l.site \in {"stale", "expired"} -> Return(p, hh)
       [] Kind(p) = "listed" /\ l.site = "contract" -> L_Continue(p, l, hh, l.i + 1)
       [] OTHER -> Return(p, hh)

\* removeOBListing, lines 389-399: a device without contract reference makes
\* it return false at once; otherwise the contract record is fetched
RemoveOBListingCall(p, l, h, deviceData, site) ==
  LET hh == [h EXCEPT !.attempted = Append(@, deviceData._id)]
      ll == Upd(l, [site |-> site])
  IN IF deviceData.obContract = NULL
     THEN AfterRemoveOBListing(p, ll, hh, FALSE)
     ELSE Goto(p, Upd(ll, [pc |-> "rm_get", cfg |-> <<>>, deviceData |-> <<deviceData>>,
                           obContractId |-> deviceData.obContract]), hh)

\* a variant of fulfillNewOrders that goes from updateExpiration straight to
\* removeOBListing, without addRentedDevice
AfterUpdateExpiration_SkipRented(p, l, h, device) ==
  CASE Kind(p) = "fulfill" ->
         RemoveOBListingCall(p, Upd(l, [devicePublicModel |-> <<device>>,
                                        deviceId |-> device._id]), h, device, "fulfill")
    [] Kind(p) = "rented" ->
         Goto(p, Upd(l, [pc |-> "r_remove", cfg |-> <<>>]), h)
    [] Kind(p) = "listed" ->
         RemoveOBListingCall(p, l, h, l.publicData[1], "stale")
    [] OTHER -> Return(p, h)

\* updateExpiration has returned the updated device: line 977 of
\* fulfillNewOrders, line 1035 of checkRentedDevices, line 1121 of
\* checkListedDevices (which passes the record it fetched at line 1088)
AfterUpdateExpiration(p, l, h, device) ==
  CASE Kind(p) = "fulfill" ->
         Goto(p, Upd(l, [pc |-> "f_addRented", cfg |-> <<>>,
                         devicePublicModel |-> <<device>>, deviceId |-> device._id]), h)
    [] Kind(p) = "rented" ->
         Goto(p, Upd(l, [pc |-> "r_remove", cfg |-> <<>>]), h)
    [] Kind(p) = "listed" ->
         RemoveOBListingCall(p, l, h, l.publicData[1], "stale")
    [] OTHER -> Return(p, h)

\* updateExpiration, lines 122-156
UpdateExpirationCall(p, l, h, deviceId, timeSelector) ==
  Goto(p, Upd(l, [pc |-> "ue_get", cfg |-> <<>>, deviceId |-> deviceId,
                  timeSelector |-> timeSelector,
                  targetTime |-> TargetTime(timeSelector)]), h)

(***************************************************************************)
(* updateExpiration, lines 150-200.                                        *)
(***************************************************************************)
\* lines 156-187: the answer to GET /api/devices/:id arrives; the new
\* expiration is computed from the clock or from the expiration just read,
\* depending on config.isRenewal, and the PUT of the whole record is sent
UeGet(p) ==
  /\ loc[p].pc = "ue_get"
  /\ UNCHANGED <<remoteVars, clock, ticks>>
  /\ \E r \in Responses(loc[p].deviceId \in DOMAIN devices, {E404}) :
       /\ Count(r)
       /\ IF ~r.ok
          THEN Catch(p, Logged(hist[p], "fail_updateExpiration"), r.err)
          ELSE LET device == devices[loc[p].deviceId]
                   now == clock
                   isRenewal == CfgOf(loc[p]).isRenewal
                   t == NewExpiration(isRenewal, now, device.expiration, loc[p].targetTime)
               IN IF ~CanISOString(t)
                  THEN Catch(p, Logged(hist[p], "fail_updateExpiration"), ERangeError)
                  ELSE Goto(p, Upd(loc[p], [pc |-> "ue_put",
                                            data |-> <<[device EXCEPT !.expiration = t]>>]),
                            [hist[p] EXCEPT !.ue = Append(@,
                               [deviceId |-> device._id, old |-> device.expiration,
                                now |-> now, isRenewal |-> isRenewal,
                                timeSelector |-> loc[p].timeSelector, new |-> t,
                                stored |-> FALSE])])

\* lines 187-194: the answer to PUT /api/devices/:id arrives; the rental API
\* has replaced the record by the one sent
UePut(p) ==
  /\ loc[p].pc = "ue_put"
  /\ UNCHANGED <<privs, rented, contracts, listings, notes, fulfillCount, orders, clock, ticks>>
  /\ \E r \in Responses(loc[p].deviceId \in DOMAIN devices, {E404}) :
       /\ Count(r)
       /\ IF ~r.ok
          THEN /\ devices' = devices
               /\ Catch(p, Logged(hist[p], "fail_updateExpiration"), r.err)
          ELSE /\ devices' = [devices EXCEPT ![loc[p].deviceId] = loc[p].data[1]]
               /\ AfterUpdateExpiration(p, loc[p],
                    [Logged(hist[p], "putExpiration") EXCEPT
                       !.ue[Len(hist[p].ue)].stored = TRUE],
                    loc[p].data[1])

(***************************************************************************)
(* getObContractModel, lines 455-486.                                      *)
(***************************************************************************)
NoObContractModelText ==
  <<"N", "o", " ", "o", "b", "C", "o", "n", "t", "r", "a", "c", "t", " ",
    "M", "o", "d", "e", "l">>
NoObContrctModelText ==
  <<"N", "o", " ", "o", "b", "C", "o", "n", "t", "r", "c", "t", " ",
    "M", "o", "d", "e", "l">>

\* line 465: the string thrown when the answer holds no obContract
ENoContract == Err(0, "string", "No obContract Model")

\* the characters of the texts that errors carry
TextOf(text) ==
  CASE text = "not found" ->
         <<"n", "o", "t", " ", "f", "o", "u", "n", "d">>
    [] text = "database error" ->
         <<"d", "a", "t", "a", "b", "a", "s", "e", " ", "e", "r", "r", "o", "r">>
    [] text = "No obContrct Model" ->
         <<"N", "o", " ", "o", "b", "C", "o", "n", "t", "r", "c", "t", " ", "M", "o", "d", "e", "l">>
    [] text = "No obContract Model" ->
         <<"N", "o", " ", "o", "b", "C", "o", "n", "t", "r", "a", "c", "t", " ", "M", "o", "d", "e", "l">>
    [] text = "StatusCodeError" ->
         <<"S", "t", "a", "t", "u", "s", "C", "o", "d", "e", "E", "r", "r", "o", "r">>
    [] text = "RequestError" ->
         <<"R", "e", "q", "u", "e", "s", "t", "E", "r", "r", "o", "r">>
    [] text = "TypeError" ->
         <<"T", "y", "p", "e", "E", "r", "r", "o", "r">>
    [] text = "undefined" ->
         <<"u", "n", "d", "e", "f", "i", "n", "e", "d">>
    [] OTHER -> <<>>

DigitChars == <<"0", "1", "2", "3", "4", "5", "6", "7", "8", "9">>

\* the decimal digits of a three-digit status code
StatusText(code) ==
  <<DigitChars[((code \div 100) % 10) + 1], DigitChars[((code \div 10) % 10) + 1],
    DigitChars[(code % 10) + 1]>>

\* err.toString() at line 480: a thrown string is itself; a StatusCodeError
\* is its name, the status code and the JSON text of the body; any other
\* error is its name and its message
ErrToString(err) ==
  CASE err.name = "string" -> TextOf(err.error)
    [] err.name = "StatusCodeError" ->
         TextOf(err.name) \o <<":", " ">> \o StatusText(err.statusCode) \o <<" ", "-", " ">>
           \o (IF err.error = NoBody THEN TextOf("undefined")
               ELSE <<"\"">> \o TextOf(err.error) \o <<"\"">>)
    [] OTHER -> TextOf(err.name) \o <<":", " ">> \o TextOf(err.error)

\* what getObContractModel does with the answer r to GET /api/obcontract/:id
\* whose body holds the contract `found` (<<>> when it holds none):
\* kind "value" returns the contract, "false" returns false, "undefined"
\* falls off the end of the catch block, "throw" throws err: the error
\* caught, rethrown at line 483, or the TypeError of reading err.error.error
\* at line 471 of an error without body
GetObContractModelResult(r, found) ==
  IF r.ok /\ found # <<>>
  THEN [kind |-> "value", model |-> found, err |-> NoErr]
  ELSE LET err == IF r.ok THEN ENoContract ELSE r.err
       IN IF err.statusCode >= 500
          THEN IF err.error = NoBody
               THEN [kind |-> "throw", model |-> <<>>, err |-> ETypeError]
               ELSE [kind |-> "false", model |-> <<>>, err |-> NoErr]
          ELSE IF IndexOf(ErrToString(err), NoObContrctModelText) # -1
          THEN [kind |-> "throw", model |-> <<>>, err |-> err]
          ELSE [kind |-> "undefined", model |-> <<>>, err |-> NoErr]

\* the rental API's answers to GET and DELETE /api/obcontract/:id
ContractResponses(id) == Responses(id \in DOMAIN contracts, {E500nf, E404})

(***************************************************************************)
(* removeOBListing, lines 389-451.  Every error is caught at line 438 and  *)
(* makes it return false.                                                  *)
(***************************************************************************)
\* the marketplace's answers to removeListing(slug): removing a slug that
\* is not listed (or `undefined`) is refused or does nothing
RemoveListingResponses(slug) ==
  IF slug # <<>> /\ \E k \in 1..Len(listings) : listings[k] = slug[1]
  THEN {Ok} \cup Injected
  ELSE {Ok, Natural(E404)} \cup Injected

WithoutSlug(ls, slug) == SelectSeq(ls, LAMBDA x : slug = <<>> \/ x # slug[1])

\* lines 399-403: the contract record arrives; removeListing is called with
\* its slug (`false.listingSlug` is undefined, `undefined.listingSlug` a
\* TypeError)
RmGet(p) ==
  /\ loc[p].pc = "rm_get"
  /\ UNCHANGED <<remoteVars, clock, ticks>>
  /\ \E r \in ContractResponses(loc[p].obContractId) :
       /\ Count(r)
       /\ LET found == IF r.ok THEN <<contracts[loc[p].obContractId]>> ELSE <<>>
              res == GetObContractModelResult(r, found)
          IN CASE res.kind = "value" ->
                    Goto(p, Upd(loc[p], [pc |-> "rm_listing",
                                         obContractModel |-> res.model,
                                         listingSlug |-> <<res.model[1].listingSlug>>]),
                         hist[p])
               [] res.kind = "false" ->
                    Goto(p, Upd(loc[p], [pc |-> "rm_listing", listingSlug |-> <<>>]),
                         hist[p])
               [] OTHER -> AfterRemoveOBListing(p, loc[p], hist[p], FALSE)

\* lines 403-414: removeListing has answered; DELETE /api/obcontract/:id is sent
RmListing(p) ==
  /\ loc[p].pc = "rm_listing"
  /\ UNCHANGED <<devices, privs, rented, contracts, notes, fulfillCount, orders, clock, ticks>>
  /\ \E r \in RemoveListingResponses(loc[p].listingSlug) :
       /\ Count(r)
       /\ IF ~r.ok
          THEN /\ listings' = listings
               /\ AfterRemoveOBListing(p, loc[p], hist[p], FALSE)
          ELSE /\ listings' = WithoutSlug(listings, loc[p].listingSlug)
               /\ Goto(p, Upd(loc[p], [pc |-> "rm_delete"]),
                       Logged(hist[p], "removeListing"))

\* lines 414-431: the contract record is deleted; the device record passed
\* to removeOBListing is PUT with obContract ""
RmDelete(p) ==
  /\ loc[p].pc = "rm_delete"
  /\ UNCHANGED <<devices, privs, rented, listings, notes, fulfillCount, orders, clock, ticks>>
  /\ \E r \in ContractResponses(loc[p].obContractId) :
       /\ Count(r)
       /\ IF ~r.ok
          THEN /\ contracts' = contracts
               /\ AfterRemoveOBListing(p, loc[p], hist[p], FALSE)
          ELSE /\ contracts' = [k \in DOMAIN contracts \ {loc[p].obContractId} |->
                                 contracts[k]]
               /\ Goto(p, Upd(loc[p], [pc |-> "rm_put",
                          data |-> <<[loc[p].deviceData[1] EXCEPT !.obContract = ""]>>]),
                       Logged(hist[p], "deleteContract"))

\* lines 431-437: the rental API has replaced the device record
RmPut(p) ==
  /\ loc[p].pc = "rm_put"
  /\ UNCHANGED <<privs, rented, contracts, listings, notes, fulfillCount, orders, clock, ticks>>
  /\ \E r \in Responses(loc[p].data[1]._id \in DOMAIN devices, {E404}) :
       /\ Count(r)
       /\ IF ~r.ok
          THEN /\ devices' = devices
               /\ AfterRemoveOBListing(p, loc[p], hist[p], FALSE)
          ELSE /\ devices' = [devices EXCEPT ![loc[p].data[1]._id] = loc[p].data[1]]
               /\ AfterRemoveOBListing(p, loc[p], Logged(hist[p], "putDevice"),
                                       loc[p].data[1].obContract = "")

(***************************************************************************)
(* getDevicePublicModel, lines 64-95, and getDevicePrivateModel, 98-118.   *)
(***************************************************************************)
EDatabase == Err(0, "string", "database error")

\* the rental API's answers to GET /api/devices/:id
DevicePublicResponses(id) ==
  Responses(id \in DOMAIN devices, {E404})
    \cup {[ok |-> FALSE, err |-> E500db, injected |-> TRUE]}

\* lines 77-94: what the catch block throws for the error err
GetDevicePublicModelThrows(err) ==
  IF err.statusCode >= 500 /\ err.error = "database error" THEN EDatabase ELSE err

\* the rental API's answers to GET /api/deviceprivatedata/:id; for a missing
\* record it fails or answers without devicePrivateData
DevicePrivateResponses(id) ==
  IF id \in DOMAIN privs THEN {Ok} \cup Injected ELSE {Ok, Natural(E404)} \cup Injected

(***************************************************************************)
(* addPaymentObject, lines 541-592.                                        *)
(***************************************************************************)
\* a variant that rounds the fee to the nearest unit
Fee_Rounded(contractPrice) == (contractPrice * FEE_PERCENTAGE + 50) \div 100

Fee(contractPrice) == (contractPrice * FEE_PERCENTAGE) \div 100
Net(contractPrice) == contractPrice - Fee(contractPrice)

\* lines 560-564
PaymentObj(c, orderInfo) ==
  [payTime |-> c.expiration, payQty |-> Net(orderInfo.value),
   refundAddr |-> orderInfo.refundAddress]

\* lines 547-584: the order arrives; the payment object is pushed onto the
\* payments of the object config.devicePrivateData refers to now, and the
\* PUT of that array is sent
PayOrder(p) ==
  /\ loc[p].pc = "pay_order"
  /\ UNCHANGED <<remoteVars, clock, ticks>>
  /\ \E r \in Responses(TRUE, {}) :
       /\ Count(r)
       /\ IF ~r.ok
          THEN Catch(p, Logged(hist[p], "fail_addPaymentObject"), r.err)
          ELSE LET c == CfgOf(loc[p])
                   ref == c.devicePrivateData
               IN IF ref = 0
                  THEN Catch(p, Logged(hist[p], "fail_addPaymentObject"), ETypeError)
                  ELSE /\ pobjs' = [pobjs EXCEPT ![ref].payments =
                                      Append(@, PaymentObj(c, OrderInfo(loc[p].orderId)))]
                       /\ loc' = [loc EXCEPT ![p] =
                                    Upd(@, [pc |-> "pay_put", body |-> pobjs'[ref].payments,
                                            bodyId |-> pobjs[ref]._id])]
                       /\ UNCHANGED <<config, hist>>

\* lines 584-587 and 985-987: the rental API has stored the payments;
\* fulfillNewOrders calls resetConfig() and ends.  Callbacks suspended in a
\* helper keep the object they were called with, and loginAdmin, suspended
\* at line 870, the object whose jwt it is about to assign.
PayPut(p) ==
  /\ loc[p].pc = "pay_put"
  /\ UNCHANGED <<devices, rented, contracts, listings, notes, fulfillCount, orders, clock, ticks>>
  /\ \E r \in Responses(loc[p].bodyId \in DOMAIN privs, {E404}) :
       /\ Count(r)
       /\ IF ~r.ok
          THEN /\ privs' = privs
               /\ Catch(p, Logged(hist[p], "fail_addPaymentObject"), r.err)
          ELSE /\ privs' = [privs EXCEPT ![loc[p].bodyId].payments = loc[p].body]
               /\ config' = ResetConfigValue(config)
               /\ loc' = [q \in Procs |->
                            IF q = p THEN Idle
                            ELSE IF /\ loc[q].pc # "idle"
                                    /\ q = "login" => loc[q].pc = "lg_token"
                                    /\ loc[q].cfg = <<>>
                            THEN [loc[q] EXCEPT !.cfg = <<config>>]
                            ELSE loc[q]]
               /\ hist' = [hist EXCEPT ![p] =
                             [Logged(Logged(@, "putPayments"), "resetConfig")
                                EXCEPT !.result = "returned"]]
               /\ pobjs' = Collect(config', loc', pobjs)

(***************************************************************************)
(* fulfillNewOrders, lines 888-999, called every 2 minutes (1003-1005).    *)
(***************************************************************************)
\* lines 1003-1005, 889-894
\* a callback that starts while no other is running is named f1
F_Start(p) ==
  /\ p \in FProcs
  /\ loc[p].pc = "idle"
  /\ p = "f2" => loc["f1"].pc # "idle"
  /\ loc' = [loc EXCEPT ![p] = Upd(Idle, [pc |-> "f_notes"])]
  /\ hist' = [q \in Procs |->
                IF q = p
                THEN [NoHist EXCEPT !.result = "running",
                                    !.alone = \A o \in FProcs \ {p} : loc[o].pc = "idle"]
                ELSE IF q \in FProcs /\ loc[q].pc # "idle"
                THEN [hist[q] EXCEPT !.alone = FALSE]
                ELSE hist[q]]
  /\ UNCHANGED <<remoteVars, config, pobjs, clock, fails>>

\* the timer fires (at most MaxTicks callbacks start in a behaviour)
Counted == ticks < MaxTicks /\ ticks' = ticks + 1

F_Timer(p) == F_Start(p) /\ Counted

\* F_Notes with the renewal flag stored before the notification's type is
\* looked at
F_Notes_FlagFirst(p) ==
  /\ loc[p].pc = "f_notes"
  /\ UNCHANGED <<remoteVars, clock, ticks>>
  /\ \E r \in Responses(TRUE, {}) :
       /\ Count(r)
       /\ IF ~r.ok
          THEN Catch(p, Logged(hist[p], "fail_getNewOBNotifications"), r.err)
          ELSE LET found == GetNewOBNotifications(AllNotifications)
               IN IF found = <<>>
                  THEN Return(p, hist[p])
                  ELSE LET thisNotice == found[1]
                           deviceId == LastToken(thisNotice.slug)
                           isRenewal == IndexOf(thisNotice.slug, RENEWAL)
                       IN /\ config' = [config EXCEPT !.isRenewal = isRenewal > -1]
                          /\ IF thisNotice.type # "order"
                             THEN /\ loc' = [loc EXCEPT ![p] = Idle]
                                  /\ hist' = [hist EXCEPT ![p] =
                                                [@ EXCEPT !.result = "returned"]]
                                  /\ pobjs' = Collect(config', loc', pobjs)
                             ELSE /\ loc' = [loc EXCEPT ![p] =
                                            Upd(@, [pc |-> "f_public", cfg |-> <<>>,
                                                    thisNotice |-> <<thisNotice>>,
                                                    deviceId |-> deviceId])]
                                  /\ hist' = [hist EXCEPT ![p] =
                                       [@ EXCEPT !.notice = thisNotice.notificationId,
                                                 !.dup = \E q \in FProcs \ {p} :
                                                    /\ loc[q].pc # "idle"
                                                    /\ hist[q].notice = thisNotice.notificationId]]
                                  /\ pobjs' = pobjs

\* lines 894-939: the unread notifications arrive
F_Notes(p) ==
  /\ loc[p].pc = "f_notes"
  /\ UNCHANGED <<remoteVars, clock, ticks>>
  /\ \E r \in Responses(TRUE, {}) :
       /\ Count(r)
       /\ IF ~r.ok
          THEN Catch(p, Logged(hist[p], "fail_getNewOBNotifications"), r.err)
          ELSE LET found == GetNewOBNotifications(AllNotifications)
               IN IF found = <<>>
                  THEN Return(p, hist[p])
                  ELSE LET thisNotice == found[1]
                           deviceId == LastToken(thisNotice.slug)
                           isRenewal == IndexOf(thisNotice.slug, RENEWAL)
                       IN IF thisNotice.type # "order"
                          THEN Return(p, hist[p])
                          ELSE /\ config' = [config EXCEPT !.isRenewal = isRenewal > -1]
                               /\ loc' = [loc EXCEPT ![p] =
                                            Upd(@, [pc |-> "f_public", cfg |-> <<>>,
                                                    thisNotice |-> <<thisNotice>>,
                                                    deviceId |-> deviceId])]
                               /\ hist' = [hist EXCEPT ![p] =
                                    [@ EXCEPT !.notice = thisNotice.notificationId,
                                              !.dup = \E q \in FProcs \ {p} :
                                                 /\ loc[q].pc # "idle"
                                                 /\ hist[q].notice = thisNotice.notificationId]]
                               /\ pobjs' = pobjs

\* lines 939-947: the device record arrives
F_Public(p) ==
  /\ loc[p].pc = "f_public"
  /\ UNCHANGED <<remoteVars, clock, ticks>>
  /\ \E r \in DevicePublicResponses(loc[p].deviceId) :
       /\ Count(r)
       /\ IF ~r.ok
          THEN Catch(p, Logged(hist[p], "fail_getDevicePublicModel"),
                     GetDevicePublicModelThrows(r.err))
          ELSE Goto(p, Upd(loc[p], [pc |-> "f_private", cfg |-> <<>>,
                                    devicePublicModel |-> <<devices[loc[p].deviceId]>>]),
                    hist[p])

\* F_Private going on to fulfillOBOrder although the answer holds no
\* devicePrivateData
F_Private_Unchecked(p) ==
  /\ loc[p].pc = "f_private"
  /\ UNCHANGED <<remoteVars, clock, ticks>>
  /\ LET privateId == loc[p].devicePublicModel[1].privateData
     IN \E r \in DevicePrivateResponses(privateId) :
          /\ Count(r)
          /\ IF ~r.ok
             THEN Catch(p, Logged(hist[p], "fail_getDevicePrivateModel"), r.err)
             ELSE /\ pobjs' = IF privateId \in DOMAIN privs
                              THEN Append(pobjs, privs[privateId]) ELSE pobjs
                  /\ config' = [config EXCEPT !.devicePrivateData = Len(pobjs'),
                                               !.obNotice = loc[p].thisNotice]
                  /\ loc' = [loc EXCEPT ![p] =
                               Upd(@, [pc |-> "f_fulfill", cfg |-> <<>>,
                                       orderId |-> loc[p].thisNotice[1].orderId])]
                  /\ hist' = hist

\* lines 947-963: the private record arrives; it and the notification are
\* stored in the object `config` refers to now, and fulfillOBOrder
\* (lines 355-375) sends the order's fulfillment
F_Private(p) ==
  /\ loc[p].pc = "f_private"
  /\ UNCHANGED <<remoteVars, clock, ticks>>
  /\ LET privateId == loc[p].devicePublicModel[1].privateData
     IN \E r \in DevicePrivateResponses(privateId) :
          /\ Count(r)
          /\ IF ~r.ok
             THEN Catch(p, Logged(hist[p], "fail_getDevicePrivateModel"), r.err)
             ELSE IF privateId \notin DOMAIN privs
             THEN Return(p, hist[p])
             ELSE /\ pobjs' = Append(pobjs, privs[privateId])
                  /\ config' = [config EXCEPT !.devicePrivateData = Len(pobjs'),
                                               !.obNotice = loc[p].thisNotice]
                  /\ loc' = [loc EXCEPT ![p] =
                               Upd(@, [pc |-> "f_fulfill", cfg |-> <<>>,
                                       orderId |-> loc[p].thisNotice[1].orderId])]
                  /\ hist' = hist

\* lines 963-970: the marketplace has fulfilled the order; the notification
\* is stored in `config` again and markNotificationAsRead (331-339) is sent
F_Fulfill(p) ==
  /\ loc[p].pc = "f_fulfill"
  /\ UNCHANGED <<devices, privs, rented, contracts, listings, notes, orders, clock, ticks>>
  /\ \E r \in Responses(TRUE, {}) :
       /\ Count(r)
       /\ IF ~r.ok
          THEN /\ fulfillCount' = fulfillCount
               /\ Catch(p, Logged(hist[p], "fail_fulfillOBOrder"), r.err)
          ELSE /\ fulfillCount' = [fulfillCount EXCEPT ![loc[p].orderId] = @ + 1]
               /\ config' = [config EXCEPT !.obNotice = loc[p].thisNotice]
               /\ loc' = [loc EXCEPT ![p] =
                            Upd(@, [pc |-> "f_mark", cfg |-> <<>>,
                                    noteId |-> loc[p].thisNotice[1].notificationId])]
               /\ hist' = [hist EXCEPT ![p] = Logged(@, "fulfillOrder")]
               /\ pobjs' = pobjs

MarkRead(ns, noteId) ==
  [k \in 1..Len(ns) |-> IF ns[k].notificationId = noteId
                         THEN [ns[k] EXCEPT !.read = TRUE] ELSE ns[k]]

\* lines 970-973: the notification is marked read; updateExpiration is
\* called with selector 30.  The catch block of markNotificationAsRead
\* (line 348) reads the undeclared `data`, so a failure surfaces as a
\* ReferenceError.
F_Mark(p) ==
  /\ loc[p].pc = "f_mark"
  /\ UNCHANGED <<devices, privs, rented, contracts, listings, fulfillCount, orders, clock, ticks>>
  /\ \E r \in Responses(TRUE, {}) :
       /\ Count(r)
       /\ IF ~r.ok
          THEN /\ notes' = notes
               /\ Catch(p, Logged(hist[p], "fail_markNotificationAsRead"), EReferenceError)
          ELSE /\ notes' = MarkRead(notes, loc[p].noteId)
               /\ UpdateExpirationCall(p, loc[p], Logged(hist[p], "markNotificationAsRead"),
                                       loc[p].devicePublicModel[1]._id, 30)

(***************************************************************************)
(* addRentedDevice, lines 207-232.                                         *)
(***************************************************************************)
E422 == Err(422, "StatusCodeError", "Device already in list")

\* the rental API's answers to POST /api/renteddevices
AddRentedResponses(deviceId) ==
  IF \E k \in 1..Len(rented) : rented[k] = deviceId
  THEN {Natural(E422)} \cup Injected
  ELSE {Ok} \cup Injected

\* a variant without line 226: every rejected POST makes addRentedDevice throw
AddRentedDeviceResult_Strict(r) == r.ok

\* lines 220-231: TRUE when addRentedDevice returns true, FALSE when it throws
AddRentedDeviceResult(r) ==
  r.ok \/ (r.err.statusCode = 422 /\ r.err.error = "Device already in list")

\* lines 977-980: the device is in the rented list; removeOBListing is called
F_AddRented(p) ==
  /\ loc[p].pc = "f_addRented"
  /\ UNCHANGED <<devices, privs, contracts, listings, notes, fulfillCount, orders, clock, ticks>>
  /\ \E r \in AddRentedResponses(loc[p].deviceId) :
       /\ Count(r)
       /\ rented' = IF r.ok THEN Append(rented, loc[p].deviceId) ELSE rented
       /\ IF ~AddRentedDeviceResult(r)
          THEN Catch(p, Logged(hist[p], "fail_addRentedDevice"), r.err)
          ELSE RemoveOBListingCall(p, loc[p], Logged(hist[p], "addRentedDevice"),
                                   loc[p].devicePublicModel[1], "fulfill")

(***************************************************************************)
(* checkRentedDevices, lines 1009-1058, called every 5 minutes.            *)
(***************************************************************************)
\* new Date() - new Date(checkinTimeStamp); NaN compares false with anything
TooLate(now, checkinTimeStamp) ==
  GetTime(checkinTimeStamp) # INVALID_DATE /\ now - GetTime(checkinTimeStamp) > MAX_DELAY

\* lines 1016-1020: the for loop at index j
R_Continue(p, l, h, j) ==
  IF j > Len(l.list)
  THEN Return(p, h)
  ELSE Goto(p, Upd(l, [pc |-> "r_public", cfg |-> <<>>, i |-> j, deviceId |-> l.list[j]]),
            [h EXCEPT !.examined = Append(@, l.list[j])])

\* lines 1063-1065, 1012-1014
\* a callback that starts while no other is running is named rented
R_Timer(p) ==
  /\ p \in RProcs
  /\ loc[p].pc = "idle"
  /\ p = "rented2" => loc["rented"].pc # "idle"
  /\ loc' = [loc EXCEPT ![p] = Upd(Idle, [pc |-> "r_list"])]
  /\ hist' = [q \in Procs |->
                IF q = p
                THEN [NoHist EXCEPT !.result = "running",
                                    !.alone = \A o \in RProcs \ {p} : loc[o].pc = "idle"]
                ELSE IF q \in RProcs /\ loc[q].pc # "idle"
                THEN [hist[q] EXCEPT !.alone = FALSE]
                ELSE hist[q]]
  /\ UNCHANGED <<remoteVars, config, pobjs, clock, fails>>
  /\ Counted

\* lines 1014-1020 (getRentedDevices, 259-282): the list arrives
R_List(p) ==
  /\ loc[p].pc = "r_list"
  /\ UNCHANGED <<remoteVars, clock, ticks>>
  /\ \E r \in Responses(TRUE, {}) :
       /\ Count(r)
       /\ IF ~r.ok
          THEN Catch(p, Logged(hist[p], "fail_getRentedDevices"), r.err)
          ELSE R_Continue(p, Upd(loc[p], [list |-> rented]),
                          [hist[p] EXCEPT !.list = rented], 1)

\* lines 1020-1032: the device record arrives
R_Public(p) ==
  /\ loc[p].pc = "r_public"
  /\ UNCHANGED <<remoteVars, clock, ticks>>
  /\ \E r \in DevicePublicResponses(loc[p].deviceId) :
       /\ Count(r)
       /\ IF ~r.ok
          THEN Catch(p, Logged(hist[p], "fail_getDevicePublicModel"),
                     GetDevicePublicModelThrows(r.err))
          ELSE LET publicData == devices[loc[p].deviceId]
                   now == clock
               IN IF TooLate(now, publicData.checkinTimeStamp)
                  THEN UpdateExpirationCall(p, Upd(loc[p], [publicData |-> <<publicData>>,
                                                            now |-> now]),
                                            [hist[p] EXCEPT !.due = Append(@, loc[p].deviceId)],
                                            loc[p].deviceId, 0)
                  ELSE R_Continue(p, loc[p], hist[p], loc[p].i + 1)

\* the rental API's answers to DELETE /api/renteddevices/:id
RemoveRentedResponses(deviceId) ==
  Responses(\E k \in 1..Len(rented) : rented[k] = deviceId, {E404})

\* R_Remove with a failed removal logged and the loop going on to the next
\* device
R_Remove_Swallow(p) ==
  /\ loc[p].pc = "r_remove"
  /\ UNCHANGED <<devices, privs, contracts, listings, notes, fulfillCount, orders, clock, ticks>>
  /\ \E r \in RemoveRentedResponses(loc[p].deviceId) :
       /\ Count(r)
       /\ IF ~r.ok
          THEN /\ rented' = rented
               /\ R_Continue(p, loc[p], Logged(hist[p], "fail_removeRentedDevice"),
                             loc[p].i + 1)
          ELSE /\ rented' = SelectSeq(rented, LAMBDA x : x # loc[p].deviceId)
               /\ R_Continue(p, loc[p], Logged(hist[p], "removeRentedDevice"), loc[p].i + 1)

\* lines 1035-1041 (removeRentedDevice, 235-256)
R_Remove(p) ==
  /\ loc[p].pc = "r_remove"
  /\ UNCHANGED <<devices, privs, contracts, listings, notes, fulfillCount, orders, clock, ticks>>
  /\ \E r \in RemoveRentedResponses(loc[p].deviceId) :
       /\ Count(r)
       /\ IF ~r.ok
          THEN /\ rented' = rented
               /\ Catch(p, Logged(hist[p], "fail_removeRentedDevice"), r.err)
          ELSE /\ rented' = SelectSeq(rented, LAMBDA x : x # loc[p].deviceId)
               /\ R_Continue(p, loc[p], Logged(hist[p], "removeRentedDevice"), loc[p].i + 1)

(***************************************************************************)
(* checkListedDevices, lines 1068-1177, called every 5 minutes.            *)
(***************************************************************************)
\* line 1129: expiration.getTime() + BUFFER < now.getTime()
Expired(now, expiration) ==
  GetTime(expiration) # INVALID_DATE /\ GetTime(expiration) + BUFFER < now

\* line 1146: now.getTime() > experation.getTime()
ContractExpired(now, experation) ==
  GetTime(experation) # INVALID_DATE /\ now > GetTime(experation)

\* lines 1182-1184, 1071-1072
\* a callback that starts while no other is running is named listed
L_Timer(p) ==
  /\ p \in LProcs
  /\ loc[p].pc = "idle"
  /\ p = "listed2" => loc["listed"].pc # "idle"
  /\ loc' = [loc EXCEPT ![p] = Upd(Idle, [pc |-> "l_listings"])]
  /\ hist' = [q \in Procs |->
                IF q = p
                THEN [NoHist EXCEPT !.result = "running",
                                    !.alone = \A o \in LProcs \ {p} : loc[o].pc = "idle"]
                ELSE IF q \in LProcs /\ loc[q].pc # "idle"
                THEN [hist[q] EXCEPT !.alone = FALSE]
                ELSE hist[q]]
  /\ UNCHANGED <<remoteVars, config, pobjs, clock, fails>>
  /\ Counted

\* lines 1072-1088: the listings arrive
L_Listings(p) ==
  /\ loc[p].pc = "l_listings"
  /\ UNCHANGED <<remoteVars, clock, ticks>>
  /\ \E r \in Responses(TRUE, {}) :
       /\ Count(r)
       /\ IF ~r.ok
          THEN Catch(p, Logged(hist[p], "fail_getListings"), r.err)
          ELSE L_Continue(p, Upd(loc[p], [list |-> listings]),
                          [hist[p] EXCEPT !.list = listings], 1)

\* a variant of checkListedDevices that looks at the expiration before the
\* check-in time
L_Public_ExpirationFirst(p) ==
  /\ loc[p].pc = "l_public"
  /\ UNCHANGED <<remoteVars, clock, ticks>>
  /\ \E r \in DevicePublicResponses(loc[p].deviceId) :
       /\ Count(r)
       /\ IF ~r.ok
          THEN IF GetDevicePublicModelThrows(r.err).statusCode = 404
               THEN Goto(p, Upd(loc[p], [pc |-> "l_rmlisting", cfg |-> <<>>,
                                         listingSlug |-> <<loc[p].thisSlug>>]), hist[p])
               ELSE Catch(p, Logged(hist[p], "fail_getDevicePublicModel"),
                          GetDevicePublicModelThrows(r.err))
          ELSE LET publicData == devices[loc[p].deviceId]
                   now == clock
                   l == Upd(loc[p], [publicData |-> <<publicData>>, now |-> now])
               IN IF Expired(now, publicData.expiration)
                  THEN RemoveOBListingCall(p, l,
                                           [hist[p] EXCEPT !.due = Append(@, loc[p].deviceId)],
                                           publicData, "expired")
                  ELSE IF TooLate(now, publicData.checkinTimeStamp)
                  THEN UpdateExpirationCall(p, l,
                                            [hist[p] EXCEPT !.due = Append(@, loc[p].deviceId)],
                                            loc[p].deviceId, 0)
                  ELSE Goto(p, Upd(l, [pc |-> "l_contract", cfg |-> <<>>,
                                       obContractId |-> publicData.obContract]), hist[p])

\* lines 1088-1141: the device record arrives, or its fetch fails
L_Public(p) ==
  /\ loc[p].pc = "l_public"
  /\ UNCHANGED <<remoteVars, clock, ticks>>
  /\ \E r \in DevicePublicResponses(loc[p].deviceId) :
       /\ Count(r)
       /\ IF ~r.ok
          THEN IF GetDevicePublicModelThrows(r.err).statusCode = 404
               THEN Goto(p, Upd(loc[p], [pc |-> "l_rmlisting", cfg |-> <<>>,
                                         listingSlug |-> <<loc[p].thisSlug>>]), hist[p])
               ELSE Catch(p, Logged(hist[p], "fail_getDevicePublicModel"),
                          GetDevicePublicModelThrows(r.err))
          ELSE LET publicData == devices[loc[p].deviceId]
                   now == clock
                   l == Upd(loc[p], [publicData |-> <<publicData>>, now |-> now])
               IN IF TooLate(now, publicData.checkinTimeStamp)
                  THEN UpdateExpirationCall(p, l,
                                            [hist[p] EXCEPT !.due = Append(@, loc[p].deviceId)],
                                            loc[p].deviceId, 0)
                  ELSE IF Expired(now, publicData.expiration)
                  THEN RemoveOBListingCall(p, l,
                                           [hist[p] EXCEPT !.due = Append(@, loc[p].deviceId)],
                                           publicData, "expired")
                  ELSE Goto(p, Upd(l, [pc |-> "l_contract", cfg |-> <<>>,
                                       obContractId |-> publicData.obContract]), hist[p])

\* L_RmListing with the loop going on to the next listing after the removal
L_RmListing_Continue(p) ==
  /\ loc[p].pc = "l_rmlisting"
  /\ UNCHANGED <<devices, privs, rented, contracts, notes, fulfillCount, orders, clock, ticks>>
  /\ \E r \in RemoveListingResponses(loc[p].listingSlug) :
       /\ Count(r)
       /\ IF ~r.ok
          THEN /\ listings' = listings
               /\ Catch(p, Logged(hist[p], "fail_removeListing"), r.err)
          ELSE /\ listings' = WithoutSlug(listings, loc[p].listingSlug)
               /\ L_Continue(p, loc[p], Logged(hist[p], "removeListingBySlug"),
                             loc[p].i + 1)

\* lines 1096-1101: the listing of a deleted device is removed by its slug
L_RmListing(p) ==
  /\ loc[p].pc = "l_rmlisting"
  /\ UNCHANGED <<devices, privs, rented, contracts, notes, fulfillCount, orders, clock, ticks>>
  /\ \E r \in RemoveListingResponses(loc[p].listingSlug) :
       /\ Count(r)
       /\ IF ~r.ok
          THEN /\ listings' = listings
               /\ Catch(p, Logged(hist[p], "fail_removeListing"), r.err)
          ELSE /\ listings' = WithoutSlug(listings, loc[p].listingSlug)
               /\ Return(p, Logged(hist[p], "removeListingBySlug"))

\* lines 1141-1155: the contract record arrives
L_Contract(p) ==
  /\ loc[p].pc = "l_contract"
  /\ UNCHANGED <<remoteVars, clock, ticks>>
  /\ \E r \in ContractResponses(loc[p].obContractId) :
       /\ Count(r)
       /\ LET found == IF r.ok THEN <<contracts[loc[p].obContractId]>> ELSE <<>>
              res == GetObContractModelResult(r, found)
          IN CASE res.kind = "throw" ->
                    Catch(p, Logged(hist[p], "fail_getObContractModel"), res.err)
               [] res.kind = "value" /\ ContractExpired(loc[p].now, res.model[1].experation) ->
                    RemoveOBListingCall(p, loc[p],
                                        [hist[p] EXCEPT !.due = Append(@, loc[p].deviceId)],
                                        loc[p].publicData[1], "contract")
               [] OTHER -> L_Continue(p, loc[p], hist[p], loc[p].i + 1)

(***************************************************************************)
(* The clock, and a direct call of updateExpiration with any selector.     *)
(***************************************************************************)
\* Time passes.  The clock is read at lines 163, 1024 and 1108 only, so it
\* is enough to let it advance when a callback is about to read it.
ClockTick ==
  /\ clock < StartTime + MaxClock
  /\ \E p \in Procs : loc[p].pc \in {"ue_get", "r_public", "l_public"}
  /\ clock' = clock + 1
  /\ UNCHANGED <<remoteVars, config, pobjs, loc, fails, ticks, hist>>

\* the selectors updateExpiration is called with here: the six presets and
\* two values that are none of them
Selectors == {0, 10, 20, 30, 40, 50, 5, 60}

\* updateExpiration(config, deviceId, timeSelector), lines 122-148
U_Call(p) ==
  /\ p = "caller"
  /\ loc[p].pc = "idle"
  /\ \E timeSelector \in Selectors, deviceId \in DOMAIN devices :
       UpdateExpirationCall(p, Idle, [NoHist EXCEPT !.result = "running"],
                            deviceId, timeSelector)
  /\ UNCHANGED <<remoteVars, clock, fails>>
  /\ Counted

(***************************************************************************)
(* Initial states: the process has started and loginAdmin has stored the   *)
(* token; nothing is running.                                              *)
(***************************************************************************)
LoggedInConfig == [InitialConfig EXCEPT !.adminPass = "secret", !.jwt = "token"]

Fresh == StartTime - Minute
Stale == StartTime - MAX_DELAY - Minute
Later == StartTime + Minute * 60
Past == StartTime - BUFFER - Minute

InitIdle ==
  /\ pobjs = <<>>
  /\ loc = [p \in Procs |-> Idle]
  /\ hist = [p \in Procs |-> NoHist]
  /\ clock = StartTime
  /\ fails = 0
  /\ ticks = 0

InitSession == config = LoggedInConfig /\ InitIdle

\* the orders the marketplace holds
OrderIds == {"o1", "o2"}
InitOrders ==
  orders = [o \in OrderIds |->
              IF o = "o1" THEN Order(1877, "addr1") ELSE Order(1885, "addr2")]

\* the notifications the marketplace holds at the start
NoteChoices ==
  {<<Note("n1", "order", "o1", RenewalSlug(DevA))>>,
   <<Note("n1", "order", "o1", RentalSlug(DevA)),
     Note("n2", "order", "o2", RenewalSlug(DevB))>>}

\* two devices on offer, each with its private record, contract and listing
InitMarket ==
  /\ devices = [d \in DeviceIds |-> Device(d, Fresh, Later, ContractOf(d))]
  /\ privs = [k \in {PrivOf(d) : d \in DeviceIds} |-> Private(k, <<>>)]
  /\ rented = <<>>
  /\ contracts = [k \in {ContractOf(d) : d \in DeviceIds} |->
                    Contract(RentalSlug(IF k = "ka" THEN DevA ELSE DevB), Later)]
  /\ listings = <<RentalSlug(DevA), RentalSlug(DevB)>>
  /\ notes \in NoteChoices
  /\ fulfillCount = [o \in {"o1", "o2"} |-> 0]

InitOffer == InitSession /\ InitMarket

InitFulfill == InitOffer /\ InitOrders

Helpers(p) ==
  \/ UeGet(p) \/ UePut(p)
  \/ RmGet(p) \/ RmListing(p) \/ RmDelete(p) \/ RmPut(p)

FulfillStep(p) ==
  \/ F_Timer(p) \/ F_Notes(p) \/ F_Public(p) \/ F_Private(p)
  \/ F_Fulfill(p) \/ F_Mark(p) \/ F_AddRented(p)
  \/ PayOrder(p) \/ PayPut(p)
  \/ Helpers(p)

Next == (\E p \in FProcs : FulfillStep(p)) \/ ClockTick

Spec == InitFulfill /\ [][Next]_vars

(***************************************************************************)
(* Properties of the Order Fulfillment Loop, checked under Spec.           *)
(***************************************************************************)
AllIdle == \A p \in Procs : loc[p].pc = "idle"

IsPrefix(s, t) == Len(s) <= Len(t) /\ SubSeq(t, 1, Len(s)) = s

Contains(s, sub) ==
  \E k \in 1..Len(s) : k + Len(sub) - 1 <= Len(s) /\ SubSeq(s, k, k + Len(sub) - 1) = sub

NoteById(id) == CHOOSE n \in {notes[k] : k \in 1..Len(notes)} : n.notificationId = id

\* the log entries that record a failed step of fulfillNewOrders
FulfillFailures ==
  {"fail_getNewOBNotifications", "fail_getDevicePublicModel", "fail_getDevicePrivateModel",
   "fail_fulfillOBOrder", "fail_markNotificationAsRead", "fail_updateExpiration",
   "fail_addRentedDevice", "fail_removeOBListing", "fail_addPaymentObject"}

NoFailure(log) == \A k \in 1..Len(log) : log[k] \notin FulfillFailures

\* C1: a step of a fulfillment tick that fails (a failed removal of the
\* listing included) ends the tick: the failure is the last thing the tick
\* does, and no later step is started.
C1_FailureAbortsTick ==
  \A p \in FProcs : \A k \in 1..Len(hist[p].log) :
    hist[p].log[k] \in FulfillFailures =>
      k = Len(hist[p].log) /\ loc[p].pc = "idle"

\* the remote effects of a tick in which every step succeeds
FullLog ==
  <<"fulfillOrder", "markNotificationAsRead", "putExpiration", "addRentedDevice",
    "removeListing", "deleteContract", "putDevice", "putPayments", "resetConfig">>

\* C2: as long as no step of a fulfillment tick has failed, its remote
\* effects have occurred in the order fulfill order, mark read, update
\* expiration, add rented device, remove listing (listing, contract, device
\* record), add payment, reset config; a tick that returns after its first
\* effect without a failure has made them all.
C2_StepOrder ==
  \A p \in FProcs :
    NoFailure(hist[p].log) =>
      /\ IsPrefix(hist[p].log, FullLog)
      /\ (hist[p].result = "returned" /\ hist[p].log # <<>> => hist[p].log = FullLog)

C2_Witness == \E p \in FProcs : hist[p].log = FullLog /\ hist[p].result = "returned"

\* the renewal semantics of every expiration a fulfillment tick computes
\* are those of its notification's slug: old expiration plus the preset
\* when the slug contains "renewal", current time plus the preset otherwise
C3_SemanticsFromSlug ==
  \A p \in FProcs : \A k \in 1..Len(hist[p].ue) :
    hist[p].ue[k].isRenewal = Contains(NoteById(hist[p].notice).slug, RENEWAL)

\* every expiration a fulfillment tick computes lies 30 days after the time
\* it was computed from
C3_ThirtyDays ==
  \A p \in FProcs : \A k \in 1..Len(hist[p].ue) :
    LET e == hist[p].ue[k]
    IN e.new = (IF e.isRenewal THEN e.old ELSE e.now) + Minute * 60 * 24 * 30

\* C3: every expiration a fulfillment tick computes is 30 days after the
\* current time when its notification's slug does not contain "renewal",
\* and 30 days after the device's old expiration when it does.  Both parts
\* fail, each on its own: the tick passes selector 30, which is one day,
\* and the flag updateExpiration reads is the one of the shared session
\* configuration, which an overlapping tick has set for its own
\* notification or reset.
C3_OneMonthPreset == C3_ThirtyDays /\ C3_SemanticsFromSlug

\* C6: when two overlapping fulfillment ticks have processed the same
\* notification, the state is the one a single processing leaves: one
\* payment object on the device's private record, and a renewal has extended
\* the expiration once.
C6_DuplicateIsNoOp ==
  \A p \in FProcs :
    hist[p].dup /\ AllIdle =>
      LET n == NoteById(hist[p].notice)
          d == LastToken(n.slug)
      IN /\ Len(privs[PrivOf(d)].payments) <= 1
         /\ Contains(n.slug, RENEWAL) =>
              devices[d].expiration \in {Later, Later + Minute * 60 * 24}

(***************************************************************************)
(* updateExpiration called on its own, with any selector, in a session     *)
(* whose renewal flag is set or not, for a device whose expiration lies    *)
(* ahead, lies behind or is no date.                                       *)
(***************************************************************************)
InitUE ==
  /\ InitIdle
  /\ \E f \in BOOLEAN, x \in {Later, Past, INVALID_DATE} :
       /\ config = [LoggedInConfig EXCEPT !.isRenewal = f]
       /\ devices = [d \in {DevA} |-> Device(d, Fresh, x, "")]
  /\ privs = [k \in {"pa"} |-> Private(k, <<>>)]
  /\ rented = <<DevA>>
  /\ contracts = <<>>
  /\ listings = <<>>
  /\ notes = <<>>
  /\ fulfillCount = [o \in {"o1", "o2"} |-> 0]
  /\ InitOrders

NextUE == U_Call("caller") \/ UeGet("caller") \/ UePut("caller") \/ ClockTick

SpecUE == InitUE /\ [][NextUE]_vars

\* the durations of the presets, in minutes
PresetMinutes(timeSelector) ==
  CASE timeSelector = 0 -> 0
    [] timeSelector = 10 -> 8
    [] timeSelector = 20 -> 60
    [] timeSelector = 30 -> 24 * 60
    [] timeSelector = 40 -> 7 * 24 * 60
    [] timeSelector = 50 -> 30 * 24 * 60
    [] OTHER -> 0

\* C4: whenever a call of updateExpiration has returned, the device record
\* on the rental API holds the expiration now + D when the session was not a
\* renewal and old expiration + D when it was, where D is 0, 8 minutes,
\* 1 hour, 1 day, 1 week, 30 days for the selectors 0, 10, 20, 30, 40, 50 and
\* 0 for any other selector.
C4_PresetTable ==
  LET h == hist["caller"]
  IN loc["caller"].pc = "idle" /\ h.result = "returned" =>
       /\ Len(h.ue) = 1
       /\ LET e == h.ue[1]
              D == PresetMinutes(e.timeSelector) * Minute
          IN /\ e.stored
             /\ e.isRenewal = config.isRenewal
             /\ devices[e.deviceId].expiration =
                  IF e.isRenewal THEN e.old + D ELSE e.now + D

C4_Witness ==
  LET h == hist["caller"]
  IN /\ loc["caller"].pc = "idle" /\ h.result = "returned"
     /\ h.ue[1].isRenewal
     /\ h.ue[1].timeSelector = 40
     /\ devices[DevA].expiration = Past + 7 * 24 * 60 * Minute

(***************************************************************************)
(* The Rented-Device Health Loop next to a fulfillment tick: one device is *)
(* rented and has not checked in for 11 minutes, the other is on offer     *)
(* under a renewal listing and has been ordered.                           *)
(***************************************************************************)
InitHealth ==
  /\ InitSession
  /\ devices = [d \in DeviceIds |->
                  IF d = DevA THEN Device(d, Stale, Later, "")
                  ELSE Device(d, Fresh, Later, ContractOf(d))]
  /\ privs = [k \in {PrivOf(d) : d \in DeviceIds} |-> Private(k, <<>>)]
  /\ rented \in {<<DevA>>, <<DevB, DevA>>}
  /\ contracts = [k \in {"kb"} |-> Contract(RenewalSlug(DevB), Later)]
  /\ listings = <<RenewalSlug(DevB)>>
  /\ notes = <<Note("n1", "order", "o1", RenewalSlug(DevB))>>
  /\ fulfillCount = [o \in {"o1", "o2"} |-> 0]
  /\ InitOrders

RentedStep(p) ==
  \/ R_Timer(p) \/ R_List(p) \/ R_Public(p) \/ R_Remove(p)
  \/ UeGet(p) \/ UePut(p)

NextHealth ==
  (\E p \in FProcs : FulfillStep(p)) \/ (\E p \in RProcs : RentedStep(p)) \/ ClockTick

SpecHealth == InitHealth /\ [][NextHealth]_vars

Occurrences(log, ev) == Cardinality({k \in 1..Len(log) : log[k] = ev})

\* the step is one of callback p: p moves on to its next awaited call
StepOf(p) == loc'[p].pc # loc[p].pc \/ loc'[p].i # loc[p].i

\* C5: when a tick of the rented-device loop has ended without an error, for
\* every device it found too late the rental API has been sent the current
\* time as expiration, and the device has been removed from the rented
\* list, whatever the fulfillment loop has left in the session configuration.
C5_StaleRentedForcedToNow ==
  \A p \in RProcs :
    LET h == hist[p]
    IN h.result = "returned" =>
         /\ \A k \in 1..Len(h.due) :
              \E j \in 1..Len(h.ue) :
                /\ h.ue[j].deviceId = h.due[k]
                /\ h.ue[j].stored
                /\ h.ue[j].new = h.ue[j].now
         /\ Occurrences(h.log, "removeRentedDevice") = Len(h.due)

\* C7: the expiration a health-loop tick computes is the one it computes in
\* a session whose renewal flag has the value it has at start-up; the fields
\* the fulfillment loop writes make no difference.
C7_HealthLoopsIgnoreScratch ==
  \A p \in RProcs \cup LProcs : \A k \in 1..Len(hist[p].ue) :
    LET e == hist[p].ue[k]
    IN e.new = NewExpiration(InitialConfig.isRenewal, e.now, e.old,
                             TargetTime(e.timeSelector))

(***************************************************************************)
(* The Listed-Device Health Loop on its own.                               *)
(***************************************************************************)
ListingChoices ==
  {<<RentalSlug(DevA), RentalSlug(DevB)>>,
   <<WIDGET, RentalSlug(DevC), RentalSlug(DevA)>>,
   <<Join(WIDGET, SubSeq(DevA, 1, 23)), Join(RENEWAL, [DevA EXCEPT ![5] = "g"]),
     RentalSlug(DevB)>>}

InitListed ==
  /\ InitSession
  /\ \E ca \in {Fresh, Stale}, xa \in {Later, Past}, cb \in {Fresh, Stale} :
       devices = [d \in DeviceIds |->
                    IF d = DevA THEN Device(d, ca, xa, "ka") ELSE Device(d, cb, Later, "kb")]
  /\ privs = [k \in {PrivOf(d) : d \in DeviceIds} |-> Private(k, <<>>)]
  /\ rented = <<>>
  /\ \E x \in {Later, Fresh} :
       contracts = [k \in {"ka", "kb"} |->
                      IF k = "ka" THEN Contract(RentalSlug(DevA), x)
                      ELSE Contract(RentalSlug(DevB), Later)]
  /\ listings \in ListingChoices
  /\ notes = <<>>
  /\ fulfillCount = [o \in {"o1", "o2"} |-> 0]
  /\ InitOrders

ListedStep(p) ==
  \/ L_Timer(p) \/ L_Listings(p) \/ L_Public(p) \/ L_RmListing(p) \/ L_Contract(p)
  \/ Helpers(p)

NextListed == (\E p \in LProcs : ListedStep(p)) \/ ClockTick

SpecListed == InitListed /\ [][NextListed]_vars

\* the log entries that record a failed step of a health loop
HealthFailures ==
  {"fail_getRentedDevices", "fail_removeRentedDevice", "fail_getListings",
   "fail_removeListing", "fail_getObContractModel", "fail_getDevicePublicModel",
   "fail_updateExpiration", "fail_removeOBListing"}

NoHealthFailure(log) == \A k \in 1..Len(log) : log[k] \notin HealthFailures

\* C8: when a tick of the listed-device loop has found a device stale and
\* every remote call has succeeded, then at the end of the tick the device
\* record holds the time of the tick as expiration and no contract
\* reference, and the listing and the contract record are gone.
C8_StaleListingForceExpired ==
  \A p \in LProcs :
    LET h == hist[p]
    IN /\ loc[p].pc = "idle" /\ h.result = "returned"
       /\ NoHealthFailure(h.log)
       /\ h.ue # <<>>
       /\ fails = 0
       => LET e == h.ue[1]
              d == e.deviceId
          IN /\ devices[d].expiration = e.now
             /\ devices[d].obContract = ""
             /\ \A k \in 1..Len(listings) : LastToken(listings[k]) # d
             /\ ContractOf(d) \notin DOMAIN contracts

RECURSIVE ValidIds(_)
ValidIds(list) ==
  IF list = <<>> THEN <<>>
  ELSE IF ValidateGuid(LastToken(Head(list)))
  THEN <<LastToken(Head(list))>> \o ValidIds(Tail(list))
  ELSE ValidIds(Tail(list))

\* C10: when a tick of the listed-device loop has ended without an error
\* and without meeting a missing device record, it has examined every
\* listing of the marketplace whose last token is a valid identifier, and
\* has attempted the removal of every one it found stale, expired or backed
\* by an expired contract.
C10_EveryListingExamined ==
  \A p \in LProcs :
    LET h == hist[p]
    IN /\ h.result = "returned"
       /\ NoHealthFailure(h.log)
       /\ Occurrences(h.log, "removeListingBySlug") = 0
       => /\ h.examined = ValidIds(h.list)
          /\ h.attempted = h.due

(***************************************************************************)
(* The Order Fulfillment Loop with a timer that never stops: every awaited *)
(* call is answered and the timer fires again and again, also while the    *)
(* previous callback still waits.  The marketplace holds one notification. *)
(***************************************************************************)
F_TimerLive(p) == F_Start(p) /\ ticks' = ticks

InitLive == InitFulfill /\ Len(notes) = 1

LiveStep(p) ==
  \/ F_TimerLive(p) \/ F_Notes(p) \/ F_Public(p) \/ F_Private(p)
  \/ F_Fulfill(p) \/ F_Mark(p) \/ F_AddRented(p)
  \/ PayOrder(p) \/ PayPut(p)
  \/ Helpers(p)

NextLive == (\E p \in FProcs : LiveStep(p)) \/ ClockTick

SpecLive ==
  InitLive /\ [][NextLive]_vars /\ \A p \in FProcs : WF_vars(LiveStep(p))

UnreadOrder(id) ==
  \E k \in 1..Len(notes) :
    /\ notes[k].notificationId = id
    /\ notes[k].type = "order"
    /\ ~notes[k].read
    /\ LastToken(notes[k].slug) \in DOMAIN devices
    /\ devices[LastToken(notes[k].slug)].privateData \in DOMAIN privs

EffectsDone(id) ==
  \E k \in 1..Len(notes) :
    /\ notes[k].notificationId = id
    /\ LET n == notes[k]
           d == LastToken(n.slug)
       IN /\ fulfillCount[n.orderId] >= 1
          /\ n.read
          /\ devices[d].expiration > Later
          /\ \E j \in 1..Len(rented) : rented[j] = d
          /\ \A j \in 1..Len(listings) : LastToken(listings[j]) # d
          /\ ContractOf(d) \notin DOMAIN contracts
          /\ Len(privs[PrivOf(d)].payments) >= 1

\* C9: every unread order notification whose device records exist leads to
\* a state in which every effect of the fulfillment cycle has occurred: the
\* order fulfilled, the notification read, the expiration extended, the
\* device in the rented list, listing and contract removed, a payment
\* appended.
C9_EffectsEventuallyOccur ==
  \A id \in {"n1", "n2"} : UnreadOrder(id) ~> EffectsDone(id)

(***************************************************************************)
(* Further properties of the Listed-Device Health Loop, under SpecListed.  *)
(***************************************************************************)
\* the device record the tick is dealing with was found both stale and past
\* its expiration plus the buffer
StaleAndExpired(p) ==
  /\ loc[p].pc \notin {"idle", "l_listings", "l_public", "l_rmlisting"}
  /\ loc[p].publicData # <<>>
  /\ TooLate(loc[p].now, loc[p].publicData[1].checkinTimeStamp)
  /\ Expired(loc[p].now, loc[p].publicData[1].expiration)

\* C11: when the listed-device loop has found a device both stale and past
\* its expiration plus the buffer, it acts on the staleness: it calls
\* updateExpiration with selector 0 for that device before anything else,
\* removeOBListing is called for the stale device only, and in no tick is
\* removeOBListing called twice for one device.
C11_StalenessFirst ==
  \A p \in LProcs :
    LET l == loc[p]
        h == hist[p]
    IN /\ \A d \in DOMAIN devices :
            Cardinality({k \in 1..Len(h.attempted) : h.attempted[k] = d}) <= 1
       /\ StaleAndExpired(p) =>
            /\ l.pc = "ue_get" =>
                 /\ l.timeSelector = 0 /\ l.deviceId = l.publicData[1]._id
                 /\ h.ue = <<>> /\ h.attempted = <<>>
            /\ l.pc # "ue_get" =>
                 /\ Len(h.ue) = 1
                 /\ h.ue[1].deviceId = l.publicData[1]._id
                 /\ h.ue[1].timeSelector = 0
            /\ l.pc = "ue_put" => h.attempted = <<>>
            /\ l.pc \in {"rm_get", "rm_listing", "rm_delete", "rm_put"} =>
                 l.site = "stale" /\ h.attempted = <<l.publicData[1]._id>>

C11_Witness ==
  \E p \in LProcs :
    /\ StaleAndExpired(p)
    /\ loc[p].pc = "rm_put"
    /\ devices[loc[p].publicData[1]._id].expiration = loc[p].now

(***************************************************************************)
(* Further properties of the Order Fulfillment Loop, under Spec.           *)
(***************************************************************************)
\* C12: when a fulfillment tick that no other tick overlaps has made all
\* its effects, the private record of its device holds exactly one payment
\* object more (here: one), whose timestamp is the expiration the tick's
\* updateExpiration has stored, whose quantity is the order's payment minus
\* the fee and whose refund address is the buyer's.
C12_PaymentObject ==
  \A p \in FProcs :
    hist[p].result = "returned" /\ hist[p].log = FullLog /\ hist[p].alone =>
      LET n == NoteById(hist[p].notice)
          d == LastToken(n.slug)
          pays == privs[PrivOf(d)].payments
          value == OrderInfo(n.orderId).value
      IN /\ Len(pays) = 1
         /\ pays[1].payTime = hist[p].ue[1].new
         /\ pays[1].payQty = value - ((value * 10) \div 100)
         /\ pays[1].refundAddr = OrderInfo(n.orderId).refundAddress

(***************************************************************************)
(* The Order Fulfillment Loop for one order notification, whose order has  *)
(* a payment from 0 to MaxPrice at, just below or halfway between the      *)
(* multiples of ten, where the fee changes and where rounding would show.  *)
(***************************************************************************)
Prices == {price \in 0..MaxPrice : price % 10 \in {0, 5, 9}}

InitFee ==
  /\ InitOffer
  /\ Len(notes) = 1
  /\ \E price \in Prices :
       orders = [o \in OrderIds |->
                   IF o = "o1" THEN Order(price, "addr1") ELSE Order(1885, "addr2")]

NextFee == (\E p \in FProcs : FulfillStep(p)) \/ ClockTick

SpecFee == InitFee /\ [][NextFee]_vars

\* C13: every payment object on a private record holds as quantity the
\* order's payment minus a fee with 0 <= fee <= payment that is the floor of
\* payment * 10 / 100 (fee * 100 <= payment * 10 < (fee + 1) * 100), so that
\* quantity + fee = payment; these are the values Fee and Net compute.
C13_FeeAndNet ==
  \A k \in DOMAIN privs : \A j \in 1..Len(privs[k].payments) :
    LET pay == privs[k].payments[j]
        price == orders[IF pay.refundAddr = "addr1" THEN "o1" ELSE "o2"].value
        net == pay.payQty
        fee == price - net
    IN /\ 0 <= fee /\ fee <= price
       /\ fee * 100 <= price * 10 /\ price * 10 < (fee + 1) * 100
       /\ net + fee = price
       /\ Fee(price) = fee /\ Net(price) = net

C13_Witness ==
  /\ orders["o1"].value = 19
  /\ \E j \in 1..Len(privs["pa"].payments) : privs["pa"].payments[j].payQty = 18

InList(list, x) == \E k \in 1..Len(list) : list[k] = x

\* C14: a call of addRentedDevice for a device that is in the rented list
\* already, which the rental API answers with 422 "Device already in list",
\* returns true: the tick records the step as done and goes on, and the
\* list is unchanged; the rented list never holds an identifier twice.
C14_AddRentedTwice ==
  /\ [](\A d \in DeviceIds : Cardinality({k \in 1..Len(rented) : rented[k] = d}) <= 1)
  /\ [][\A p \in FProcs :
          /\ loc[p].pc = "f_addRented"
          /\ loc'[p].pc # "f_addRented"
          /\ InList(rented, loc[p].deviceId)
          /\ fails' = fails
          => /\ rented' = rented
             /\ hist'[p].log = Append(hist[p].log, "addRentedDevice")
             /\ hist'[p].result = "running"]_vars

\* two overlapping ticks have both added the same device
C14_Witness ==
  /\ \A p \in FProcs : InList(hist[p].log, "addRentedDevice")
  /\ hist["f1"].notice = hist["f2"].notice
  /\ fails = 0
  /\ rented = <<LastToken(NoteById(hist["f1"].notice).slug)>>

(***************************************************************************)
(* The Order Fulfillment Loop over marketplaces whose first                *)
(* unread notification is an order, is not an order, or does not exist,    *)
(* and over rental servers that lack the ordered device or its private     *)
(* record.                                                                 *)
(***************************************************************************)
SoloNoteChoices ==
  NoteChoices \cup
    {<<>>,
     <<Note("n1", "payment", "o1", RenewalSlug(DevA)),
       Note("n2", "order", "o2", RentalSlug(DevB))>>,
     <<Note("n1", "order", "o1", RentalSlug(DevC))>>,
     <<Note("n1", "order", "o1", RenewalSlug(DevB))>>}

InitSolo ==
  /\ InitSession
  /\ InitOrders
  /\ devices = [d \in DeviceIds |-> Device(d, Fresh, Later, ContractOf(d))]
  /\ \E ks \in {{PrivOf(DevA)}, {PrivOf(d) : d \in DeviceIds}} :
       privs = [k \in ks |-> Private(k, <<>>)]
  /\ rented = <<>>
  /\ contracts = [k \in {ContractOf(d) : d \in DeviceIds} |->
                    Contract(RentalSlug(IF k = "ka" THEN DevA ELSE DevB), Later)]
  /\ listings = <<RentalSlug(DevA), RentalSlug(DevB)>>
  /\ notes \in SoloNoteChoices
  /\ fulfillCount = [o \in OrderIds |-> 0]

NextSolo == (\E p \in FProcs : FulfillStep(p)) \/ ClockTick

SpecSolo == InitSolo /\ [][NextSolo]_vars

\* the tick of callback p has nothing to fulfil: the marketplace holds no
\* unread notification, or its first unread notification is not an order
NothingToFulfil ==
  LET found == Unread(notes)
  IN found = <<>> \/ found[1].type # "order"

\* C15: in a fulfillment tick that finds no unread notification, or whose
\* first unread notification is not of type "order", no step changes the
\* state of the marketplace or of the rental API or the session
\* configuration, and the step that receives the notifications ends the
\* tick by returning.
C15_QuietTick ==
  [][\A p \in FProcs :
       /\ loc[p].pc \in {"idle", "f_notes"}
       /\ StepOf(p)
       /\ NothingToFulfil
       => /\ UNCHANGED <<remoteVars, config>>
          /\ loc[p].pc = "f_notes" /\ fails' = fails =>
               /\ loc'[p].pc = "idle"
               /\ hist'[p].result = "returned"
               /\ hist'[p].log = <<>>]_vars

\* a tick has returned from a marketplace whose first unread notification
\* is not an order, and one from a marketplace without unread notifications
\* after a renewal
C15_Witness ==
  /\ AllIdle
  /\ hist["f1"].result = "returned"
  /\ hist["f1"].log = <<>>
  /\ hist["f1"].notice = ""
  /\ NothingToFulfil
  /\ \/ Unread(notes) # <<>> /\ IndexOf(Unread(notes)[1].slug, RENEWAL) > -1
     \/ Unread(notes) = <<>> /\ notes # <<>> /\ config.isRenewal

\* the rental server cannot resolve the device of notification n or the
\* device's private record
Unresolvable(n) ==
  LET d == LastToken(n.slug)
  IN d \notin DOMAIN devices \/ devices[d].privateData \notin DOMAIN privs

\* the steps of a fulfillment tick up to the answer about the private record
Resolving == {"f_notes", "f_public", "f_private"}

\* C16: a fulfillment tick changes nothing on the marketplace or the rental
\* server before the device record and its private record have both
\* arrived; when the lookup of either fails, or the server has no such
\* record, the tick ends at that step; and an order whose device or private
\* record the server cannot resolve is never fulfilled and its notification
\* is never marked read.
C16_AbortBeforeMutation ==
  /\ [](\A k \in 1..Len(notes) :
          notes[k].type = "order" /\ Unresolvable(notes[k])
          => ~notes[k].read /\ fulfillCount[notes[k].orderId] = 0)
  /\ [][\A p \in FProcs :
          /\ loc[p].pc \in Resolving
          /\ StepOf(p)
          => /\ UNCHANGED remoteVars
             /\ \/ /\ loc[p].pc = "f_public"
                   /\ fails' # fails \/ loc[p].deviceId \notin DOMAIN devices
                \/ /\ loc[p].pc = "f_private"
                   /\ fails' # fails \/ Unresolvable(loc[p].thisNotice[1])
                => /\ loc'[p].pc = "idle"
                   /\ hist'[p].result \in {"caught", "returned"}
                   /\ hist'[p].log \in {<<>>, <<"fail_getDevicePublicModel">>,
                                         <<"fail_getDevicePrivateModel">>}]_vars

\* after an order for another device was fulfilled, a tick has ended at the
\* lookup of a private record the server does not have
C16_Witness ==
  /\ AllIdle
  /\ hist["f1"].notice = "n2"
  /\ Unresolvable(NoteById("n2"))
  /\ hist["f1"].result = "returned"
  /\ rented = <<DevA>>
  /\ fulfillCount = [o \in OrderIds |-> IF o = "o1" THEN 1 ELSE 0]

(***************************************************************************)
(* The Order Fulfillment Loop for an order notification of any slug put    *)
(* together from a few pieces, with and without '-' between them.          *)
(***************************************************************************)
EXAMPLE_ID ==
  <<"a", "b", "c", "d", "e", "f", "0", "1", "2", "3", "4", "5",
    "6", "7", "8", "9", "a", "b", "c", "d", "e", "f", "0", "1">>
EXAMPLE_SLUG == Join(Join(<<"w", "i", "d", "g", "e", "t">>, RENEWAL), EXAMPLE_ID)

SlugPieces ==
  {<<>>, WIDGET, RENEWAL, <<"r", "e", "n", "e", "w">>, <<"a", "l">>,
   <<"R", "e", "n", "e", "w", "a", "l">>, DevA}
SlugSeparators == {<<>>, <<"-">>}
SlugChoices ==
  {a \o s \o b \o t \o c :
     <<a, b, c>> \in {<<>>, WIDGET} \X SlugPieces \X {<<>>, <<"a", "l">>, DevC},
     <<s, t>> \in SlugSeparators \X SlugSeparators}
    \cup {EXAMPLE_SLUG, RenewalSlug(DevA)}

InitSlug ==
  /\ InitSession
  /\ InitOrders
  /\ devices = [d \in DeviceIds |-> Device(d, Fresh, Later, ContractOf(d))]
  /\ privs = [k \in {PrivOf(d) : d \in DeviceIds} |-> Private(k, <<>>)]
  /\ rented = <<>>
  /\ contracts = [k \in {ContractOf(d) : d \in DeviceIds} |->
                    Contract(RentalSlug(IF k = "ka" THEN DevA ELSE DevB), Later)]
  /\ listings = <<RentalSlug(DevA), RentalSlug(DevB)>>
  /\ \E slug \in SlugChoices : notes = <<Note("n1", "order", "o1", slug)>>
  /\ fulfillCount = [o \in OrderIds |-> 0]

NextSlug == (\E p \in FProcs : FulfillStep(p)) \/ ClockTick

SpecSlug == InitSlug /\ [][NextSlug]_vars

\* id is what follows the last '-' of slug (the whole slug if it has none)
AfterLastDash(slug, id) ==
  \E k \in 0..Len(slug) :
    /\ k = 0 \/ slug[k] = "-"
    /\ \A i \in (k + 1)..Len(slug) : slug[i] # "-"
    /\ id = SubSeq(slug, k + 1, Len(slug))

\* C17: once a tick has taken up an order notification, its device id is
\* the last '-'-delimited token of the notification's slug, and the step
\* that takes the notification up sets the renewal flag of the session
\* configuration to TRUE exactly if the slug contains "renewal"; for the
\* slug "widget-renewal-abcdef0123456789abcdef01" these are
\* abcdef0123456789abcdef01 and TRUE.
C17_SlugParsing ==
  /\ [](\A p \in FProcs :
          loc[p].pc \notin {"idle", "f_notes"} =>
            LET slug == loc[p].thisNotice[1].slug
            IN /\ AfterLastDash(slug, loc[p].deviceId)
               /\ slug = EXAMPLE_SLUG => loc[p].deviceId = EXAMPLE_ID)
  /\ [][\A p \in FProcs :
          loc[p].pc = "f_notes" /\ loc'[p].pc \notin {"idle", "f_notes"} =>
            LET slug == loc'[p].thisNotice[1].slug
            IN /\ config'.isRenewal <=> Contains(slug, RENEWAL)
               /\ slug = EXAMPLE_SLUG => config'.isRenewal]_vars

\* a tick has taken up the slug of the example
C17_Witness ==
  \E p \in FProcs :
    /\ loc[p].pc = "f_public"
    /\ loc[p].thisNotice[1].slug = EXAMPLE_SLUG
    /\ loc[p].deviceId = EXAMPLE_ID
    /\ config.isRenewal

(***************************************************************************)
(* validateGuid called on its own, with strings of 23 to 25 characters     *)
(* that differ from an identifier in one place, and with values that are   *)
(* not strings.                                                            *)
(***************************************************************************)
GuidChars == {"0", "9", "a", "f", "A", "F", "g", "G", "-", " ", "/", ":", "@"}

GuidStrings ==
  {[i \in 1..n |-> IF i = k THEN c ELSE base[((i - 1) % 24) + 1]] :
     <<n, k>> \in (23..25) \X (1..25), c \in GuidChars, base \in {DevA, EXAMPLE_ID}}
    \cup {<<>>}

GuidValues ==
  {JsValue("string", s) : s \in GuidStrings}
    \cup {JsValue("undefined", <<>>),
          JsValue("object", DevA),
          JsValue("number", [i \in 1..24 |-> "1"]),
          JsValue("boolean", <<"t", "r", "u", "e">>)}

InitGuid ==
  /\ config = LoggedInConfig
  /\ InitOrders
  /\ devices = <<>> /\ privs = <<>> /\ rented = <<>> /\ contracts = <<>>
  /\ listings = <<>> /\ notes = <<>>
  /\ fulfillCount = [o \in OrderIds |-> 0]
  /\ pobjs = <<>>
  /\ hist = [p \in Procs |-> NoHist]
  /\ clock = StartTime
  /\ fails = 0
  /\ ticks = 0
  /\ \E guid \in GuidValues :
       loc = [p \in Procs |-> IF p = "caller" THEN Upd(Idle, [guid |-> <<guid>>])
                                                ELSE Idle]

\* validateGuid(guid), lines 491-497
V_Call(p) ==
  /\ p = "caller"
  /\ loc[p].pc = "idle"
  /\ loc[p].guid # <<>>
  /\ hist[p].result = "none"
  /\ hist' = [hist EXCEPT ![p] =
                [NoHist EXCEPT !.result = "returned",
                               !.valid = <<ValidateGuidValue(loc[p].guid[1])>>]]
  /\ UNCHANGED <<remoteVars, config, pobjs, loc, clock, fails, ticks>>

NextGuid == V_Call("caller")

SpecGuid == InitGuid /\ [][NextGuid]_vars

LowerHex ==
  {"0", "1", "2", "3", "4", "5", "6", "7", "8", "9", "a", "b", "c", "d", "e", "f"}
UpperHex == {"A", "B", "C", "D", "E", "F"}

\* the argument of the last call of validateGuid is a string of exactly 24
\* characters out of chars
GuidOver(chars) ==
  LET guid == loc["caller"].guid[1]
  IN /\ guid.typeof = "string"
     /\ Len(guid.text) = 24
     /\ \A i \in 1..24 : guid.text[i] \in chars

\* C18, as stated: validateGuid returns true if and only if its argument is
\* a string of exactly 24 characters, each a lowercase hexadecimal digit.
C18_LowercaseOnly ==
  hist["caller"].valid # <<>> =>
    (hist["caller"].valid[1] <=> GuidOver(LowerHex))

\* C18, amended: validateGuid returns true if and only if its argument is a
\* string of exactly 24 characters, each a hexadecimal digit in either case
\* (0-9, a-f, A-F); every other input, a value that is not a string
\* included, is rejected.
C18_HexEitherCase ==
  hist["caller"].valid # <<>> =>
    /\ hist["caller"].valid[1] <=> GuidOver(LowerHex \cup UpperHex)
    /\ loc["caller"].guid[1].typeof # "string" => hist["caller"].valid[1] = FALSE

\* validateGuid has accepted a string of 24 hexadecimal digits one of which
\* is an uppercase letter
C18_Witness ==
  /\ hist["caller"].valid = <<TRUE>>
  /\ GuidOver(LowerHex \cup UpperHex)
  /\ ~GuidOver(LowerHex)

\* the last n entries of log are evs
EndsWith(log, evs) ==
  Len(log) >= Len(evs) /\ SubSeq(log, Len(log) - Len(evs) + 1, Len(log)) = evs

\* C19: removeOBListing sends each remote call only after the previous one
\* succeeded: the marketplace listing is deleted, by the contract's slug,
\* only when the contract record has been fetched; the contract record is
\* deleted only after the listing deletion succeeded; the device record is
\* PUT with its contract reference cleared only after the contract record
\* deletion succeeded.
C19_CallOrder ==
  \A p \in Procs :
    LET l == loc[p]
    IN /\ l.pc = "rm_listing" =>
            /\ l.obContractModel # <<>>
            /\ l.listingSlug = <<l.obContractModel[1].listingSlug>>
       /\ l.pc = "rm_delete" => EndsWith(hist[p].log, <<"removeListing">>)
       /\ l.pc = "rm_put" =>
            /\ EndsWith(hist[p].log, <<"removeListing", "deleteContract">>)
            /\ l.data[1].obContract = ""

\* the positions of a callback inside removeOBListing
InRemoveOBListing == {"rm_get", "rm_listing", "rm_delete", "rm_put"}

\* C20: removeOBListing never propagates an error (the fulfillment tick
\* that called it goes on to addPaymentObject), and it returns true exactly
\* when all of its remote calls succeeded (the contract record was fetched,
\* the listing and the contract record were deleted, the device record was
\* PUT) and the device record after the PUT has an empty contract
\* reference; in every other case it returns false.
C20_TrueOnlyOnSuccess ==
  [][\A p \in FProcs :
       /\ loc[p].pc \in InRemoveOBListing
       /\ loc'[p].pc \notin InRemoveOBListing
       => /\ loc'[p].pc = "pay_order"
          /\ hist'[p].result = "running"
          /\ ~InList(hist'[p].log, "fail_removeOBListing") <=>
               /\ loc[p].obContractModel # <<>>
               /\ EndsWith(hist'[p].log, <<"removeListing", "deleteContract", "putDevice">>)
               /\ devices'[loc[p].deviceData[1]._id].obContract = ""]_vars

(***************************************************************************)
(* A helper called on its own: the rental API and the marketplace are      *)
(* empty.  The helper sends its request and waits; the answer comes in a   *)
(* later step and is kept in the caller's `answer`.  Between the two the   *)
(* timer of fulfillNewOrders may fire and its callbacks run.               *)
(***************************************************************************)
InitDirect ==
  /\ config = LoggedInConfig
  /\ InitOrders
  /\ devices = <<>> /\ privs = <<>> /\ rented = <<>> /\ contracts = <<>>
  /\ listings = <<>> /\ notes = <<>>
  /\ fulfillCount = [o \in OrderIds |-> 0]
  /\ pobjs = <<>>
  /\ hist = [p \in Procs |-> NoHist]
  /\ clock = StartTime
  /\ fails = 0
  /\ ticks = 0
  /\ loc = [p \in Procs |-> Idle]

\* the caller calls the helper, which sends its request and waits at pc
DirectCall(p, pc) ==
  /\ p = "caller"
  /\ loc[p].pc = "idle"
  /\ hist[p].result = "none"
  /\ loc' = [loc EXCEPT ![p].pc = pc]
  /\ hist' = [hist EXCEPT ![p].result = "running"]
  /\ UNCHANGED <<remoteVars, config, pobjs, clock, fails, ticks>>

\* the request the helper waits for at pc is answered with a, and the
\* helper returns `outcome` to the caller or, if err is an error, throws it
DirectAnswer(p, pc, a, outcome, err) ==
  /\ p = "caller"
  /\ loc[p].pc = pc
  /\ loc' = [loc EXCEPT ![p] = Upd(Idle, [answer |-> <<a>>])]
  /\ hist' = [hist EXCEPT ![p] =
                [@ EXCEPT !.result = IF err = NoErr THEN "returned" ELSE "threw",
                          !.outcome = outcome, !.err = err]]
  /\ UNCHANGED <<remoteVars, config, pobjs, clock, fails, ticks>>

\* lines 1003-1005 and 889-899: with no notification at the marketplace a
\* callback of fulfillNewOrders ends when its first request is answered
QuietTick(p) == F_Timer(p) \/ F_Notes(p)

StatusCodes == {400, 401, 403, 404, 422, 499, 500, 501, 502, 503, 504, 599}
ErrorTexts == {"", "not found", "database error", "No obContrct Model", NoBody}

ContractAnswers ==
  {[r |-> Ok, found |-> <<Contract(RentalSlug(d), x)>>] :
     d \in DeviceIds, x \in {Later, Past}}
    \cup {[r |-> Ok, found |-> <<>>]}
    \cup {[r |-> Natural(Err(code, "StatusCodeError", text)), found |-> <<>>] :
            code \in StatusCodes, text \in ErrorTexts}
    \cup {[r |-> Natural(ENet), found |-> <<>>]}

InitContract == InitDirect

\* getObContractModel(config, contractId), lines 455-463: the GET of the
\* contract record is sent
G_Call(p) == DirectCall(p, "g_wait")

\* lines 463-485: the GET is answered
G_Answer(p) ==
  \E a \in ContractAnswers :
    \E o \in {GetObContractModelResult(a.r, a.found)} :
      DirectAnswer(p, "g_wait", a, <<o>>, IF o.kind = "throw" THEN o.err ELSE NoErr)

NextContract ==
  \/ G_Call("caller") \/ G_Answer("caller")
  \/ \E p \in FProcs : QuietTick(p)

SpecContract == InitContract /\ [][NextContract]_vars

\* C21: getObContractModel returns the contract record when the answer
\* holds one, returns false when the answer is a 5xx error whose error text
\* is "not found", and throws for every other answer (an answer without
\* contract record, any other error).
C21_ContractOrFalseOrThrow ==
  LET a == loc["caller"].answer[1]
      o == hist["caller"].outcome[1]
  IN hist["caller"].outcome # <<>> =>
       IF a.r.ok /\ a.found # <<>>
       THEN o.kind = "value" /\ o.model = a.found
       ELSE IF /\ ~a.r.ok
               /\ a.r.err.statusCode >= 500 /\ a.r.err.statusCode <= 599
               /\ a.r.err.error = "not found"
       THEN o.kind = "false"
       ELSE o.kind = "throw"

(***************************************************************************)
(* The rented-device loop alone, over lists of one or two devices each of  *)
(* which has checked in lately or not, or has no record.                   *)
(***************************************************************************)
InitRented ==
  /\ InitSession
  /\ InitOrders
  /\ \E ca \in {Fresh, Stale}, cb \in {Fresh, Stale} :
       devices = [d \in DeviceIds |->
                    Device(d, IF d = DevA THEN ca ELSE cb, Later, ContractOf(d))]
  /\ privs = [k \in {PrivOf(d) : d \in DeviceIds} |-> Private(k, <<>>)]
  /\ rented \in {<<DevA>>, <<DevA, DevB>>, <<DevB, DevA>>, <<DevA, DevC>>, <<DevC, DevA>>}
  /\ contracts = [k \in {ContractOf(d) : d \in DeviceIds} |->
                    Contract(RentalSlug(IF k = "ka" THEN DevA ELSE DevB), Later)]
  /\ listings = <<RentalSlug(DevA), RentalSlug(DevB)>>
  /\ notes = <<>>
  /\ fulfillCount = [o \in OrderIds |-> 0]

NextRented == (\E p \in RProcs : RentedStep(p)) \/ ClockTick

SpecRented == InitRented /\ [][NextRented]_vars

\* the request the rented-device loop is waiting for cannot succeed: the
\* rental API has no such record
RentedRequestRefused(p) ==
  LET l == loc[p]
  IN \/ l.pc \in {"r_public", "ue_get", "ue_put"} /\ l.deviceId \notin DOMAIN devices
     \/ l.pc = "r_remove" /\ ~InList(rented, l.deviceId)

\* C22: in the rented-device loop a step whose request fails ends the tick
\* and changes nothing on the rental API; and when a tick has ended with an
\* error, the devices it has fetched are a prefix of the rented list it
\* started with, it has written the expiration of those devices only and
\* has removed only devices before the one it failed at; and when no other
\* tick of the loop has run meanwhile, what the tick has written and
\* removed before the error is still in place and nothing else has gone
\* from the rented list.
C22_ErrorAbortsRentedTick ==
  /\ [][\A p \in RProcs :
          /\ loc[p].pc \notin {"idle"}
          /\ StepOf(p)
          /\ fails' # fails \/ RentedRequestRefused(p)
          => /\ loc'[p].pc = "idle"
             /\ hist'[p].result = "caught"
             /\ UNCHANGED remoteVars]_vars
  /\ [](\A p \in RProcs :
          LET h == hist[p]
              n == Len(h.examined)
          IN h.result = "caught" /\ n >= 1 =>
               /\ n <= Len(h.list) /\ h.examined = SubSeq(h.list, 1, n)
               /\ \A k \in 1..Len(h.ue) : InList(h.examined, h.ue[k].deviceId)
               /\ Occurrences(h.log, "removeRentedDevice") <= n - 1
               /\ h.alone =>
                    /\ \A k \in 1..Len(h.ue) :
                         h.ue[k].stored =>
                           devices[h.ue[k].deviceId].expiration = h.ue[k].new
                    /\ Occurrences(h.log, "removeRentedDevice")
                         = Len(h.list) - Len(rented)
                    /\ \A j \in 1..Len(h.list) :
                         ~InList(rented, h.list[j]) => j < n /\ InList(h.due, h.list[j]))

\* a tick has removed the first device of its list and has ended with an
\* error at the second one
C22_Witness ==
  \E p \in RProcs :
    LET h == hist[p]
    IN /\ loc[p].pc = "idle"
       /\ h.result = "caught"
       /\ h.alone
       /\ Len(h.list) = 2 /\ Len(h.examined) = 2
       /\ rented = <<h.list[2]>>
       /\ h.log[Len(h.log)] \in {"fail_getDevicePublicModel", "fail_updateExpiration",
                                 "fail_removeRentedDevice"}

\* the rental API's state: everything but the marketplace's
RentalState == <<devices, privs, rented, contracts>>

\* C23: in the listed-device loop, when the rental API has no record of a
\* listing's device (the fetch fails with 404), the next request is the
\* removal of that listing by its slug; when that request has been answered
\* the tick is over, without any further listing examined and without any
\* change to the rental API; when it succeeded (the marketplace still had
\* the listing and the request did not fail) the listing is gone, the other
\* listings are kept and the tick has returned.
C23_MissingDeviceListing ==
  [][\A p \in LProcs :
       LET l == loc[p]
           h == hist[p]
       IN /\ /\ l.pc = "l_public"
             /\ StepOf(p)
             /\ l.deviceId \notin DOMAIN devices
             /\ fails' = fails
             => /\ loc'[p].pc = "l_rmlisting"
                /\ loc'[p].listingSlug = <<l.thisSlug>>
                /\ hist'[p] = h
                /\ UNCHANGED remoteVars
          /\ /\ l.pc = "l_rmlisting"
             /\ StepOf(p)
             => /\ loc'[p].pc = "idle"
                /\ hist'[p].examined = h.examined
                /\ h.examined[Len(h.examined)] = LastToken(l.listingSlug[1])
                /\ UNCHANGED <<RentalState, notes, fulfillCount, orders>>
                /\ fails' = fails /\ InList(listings, l.thisSlug) =>
                     /\ listings' = SelectSeq(listings, LAMBDA x : x # l.thisSlug)
                     /\ l.listingSlug = <<l.thisSlug>>
                     /\ hist'[p].result = "returned"]_vars

\* the listing of a device without record has been removed, and the tick
\* has ended before the listing behind it was examined
C23_Witness ==
  \E p \in LProcs :
    /\ loc[p].pc = "idle"
    /\ hist[p].result = "returned"
    /\ hist[p].list = <<WIDGET, RentalSlug(DevC), RentalSlug(DevA)>>
    /\ hist[p].examined = <<DevC>>
    /\ listings = <<WIDGET, RentalSlug(DevA)>>
    /\ fails = 0

\* id is made of 24 hexadecimal digits
HexDigits == LowerHex \cup UpperHex
WellFormedId(id) == Len(id) = 24 /\ \A i \in 1..24 : id[i] \in HexDigits

\* what follows the last '-' of slug (the whole slug if it has none)
TrailingToken(slug) ==
  LET dashes == {k \in 1..Len(slug) : slug[k] = "-"}
  IN IF dashes = {} THEN slug
     ELSE SubSeq(slug, (CHOOSE k \in dashes : \A j \in dashes : j <= k) + 1, Len(slug))

\* of the tokens toks, the first n without those that are not well formed
WellFormedIdsOf(toks, n) == SelectSeq(SubSeq(toks, 1, n), WellFormedId)

\* C24: in the listed-device loop the devices a tick has examined, up to
\* the listing it is at, are the trailing tokens of exactly those listings
\* whose trailing token is a valid identifier, in the order of the list:
\* a listing with an invalid token is passed over and the next one is
\* taken up in the same tick; every request of the loop is for a valid
\* identifier; and a listing with an invalid token is never removed.
C24_InvalidIdSkipped ==
  \A p \in LProcs :
    LET l == loc[p]
        h == hist[p]
        toks == [k \in 1..Len(h.list) |-> TrailingToken(h.list[k])]
    IN /\ l.pc \notin {"idle", "l_listings"} =>
            /\ h.examined = WellFormedIdsOf(toks, l.i)
            /\ WellFormedId(l.deviceId)
            /\ l.thisSlug = h.list[l.i]
            /\ l.listingSlug # <<>> => WellFormedId(TrailingToken(l.listingSlug[1]))
       /\ h.result = "returned" /\ h.log = <<>> =>
            h.examined = WellFormedIdsOf(toks, Len(h.list))
       /\ \A k \in 1..Len(h.list) :
            ~WellFormedId(toks[k]) => InList(listings, h.list[k])

\* a tick has passed over two listings with invalid tokens and is fetching
\* the device of the third
C24_Witness ==
  \E p \in LProcs :
    LET l == loc[p]
        h == hist[p]
    IN /\ l.pc = "l_public"
       /\ l.i = 3
       /\ ~WellFormedId(TrailingToken(h.list[1]))
       /\ ~WellFormedId(TrailingToken(h.list[2]))
       /\ h.examined = <<DevB>>

(***************************************************************************)
(* The three loops together, each on its timer (setInterval, lines         *)
(* 1003-1005, 1063-1065, 1182-1184; MaxTicks firings in all).  The rented  *)
(* list names a device that has not checked in lately and a device without *)
(* record, so that the rented-device loop fails in every tick.             *)
(***************************************************************************)
InitLoops ==
  /\ InitSession
  /\ InitOrders
  /\ devices = [d \in DeviceIds |->
                  Device(d, IF d = DevA THEN Fresh ELSE Stale, Later, ContractOf(d))]
  /\ privs = [k \in {PrivOf(d) : d \in DeviceIds} |-> Private(k, <<>>)]
  /\ rented = <<DevB, DevC>>
  /\ contracts = [k \in {ContractOf(d) : d \in DeviceIds} |->
                    Contract(RentalSlug(IF k = "ka" THEN DevA ELSE DevB), Later)]
  /\ listings = <<RentalSlug(DevA), RentalSlug(DevB)>>
  /\ notes = <<Note("n1", "order", "o1", RenewalSlug(DevA))>>
  /\ fulfillCount = [o \in OrderIds |-> 0]

NextLoops ==
  \/ \E p \in FProcs : FulfillStep(p)
  \/ \E p \in RProcs : RentedStep(p)
  \/ \E p \in LProcs : ListedStep(p)
  \/ ClockTick

SpecLoops == InitLoops /\ [][NextLoops]_vars

\* the callbacks of the three loops, and those of the loop of callback p
Loops == FProcs \cup RProcs \cup LProcs
Peers(p) == {q \in Loops : Kind(q) = Kind(p)}

\* where a failed request is dealt with by the helper that sent it
\* (removeOBListing, getObContractModel, the 404 of a listing's device)
HandledInHelper == InRemoveOBListing \cup {"l_contract", "l_public"}

\* C25: in each of the three loops a request that fails either is dealt
\* with by the helper that sent it or ends the tick in the catch block of
\* the loop body, with the error caught; a tick that is over has left its
\* callback idle, and the next firing of the loop's timer starts another
\* tick.
C25_NoErrorEscapes ==
  /\ [][\A p \in Loops :
          /\ loc[p].pc # "idle"
          /\ StepOf(p)
          /\ fails' # fails \/ (p \in RProcs /\ RentedRequestRefused(p))
          => \/ /\ loc'[p].pc = "idle"
                /\ hist'[p].result = "caught"
                /\ hist'[p].err # NoErr
             \/ /\ loc[p].pc \in HandledInHelper
                /\ hist'[p].result \in {"running", "returned"}]_vars
  /\ [](\A p \in Loops : hist[p].result \notin {"none", "running"} =>
          /\ loc[p].pc = "idle"
          /\ hist[p].result \in {"caught", "returned"}
          /\ ticks < MaxTicks =>
               \E q \in Peers(p) : ENABLED (F_Timer(q) \/ R_Timer(q) \/ L_Timer(q)))

\* the rented-device loop and the fulfillment loop have each ended a tick
\* in the catch block
C25_Witness ==
  /\ hist["rented"].result = "caught"
  /\ hist["rented"].err = E404
  /\ \E p \in FProcs : hist[p].result = "caught" /\ hist[p].err = ENet
  /\ \A p \in LProcs : loc[p].pc = "idle"
  /\ fails = 1

(***************************************************************************)
(* loginAdmin, lines 857-877, with readAdminFile (499-511) and getToken    *)
(* (515-537).  It is called once when the process starts and calls itself  *)
(* again after a failure.  The timer of fulfillNewOrders is registered     *)
(* right after the call (line 1003), so its callbacks run while loginAdmin *)
(* sleeps or waits, and find one order at the marketplace.                 *)
(***************************************************************************)
E401 == Err(401, "StatusCodeError", "Unauthorized")
ESyntaxError == Err(0, "SyntaxError", "")
ENoEnt == Err(0, "Error", "ENOENT")

ADMIN_PASSWORD == "secret"
TOKEN == "token"

\* what the credentials file holds when it is read: nothing (there is no
\* file), a JSON object with a password, the JSON text null, or text that
\* is not JSON (the file is still being written)
AdminFiles ==
  {[kind |-> "missing", password |-> ""],
   [kind |-> "object", password |-> ADMIN_PASSWORD],
   [kind |-> "object", password |-> "stale"],
   [kind |-> "null", password |-> ""],
   [kind |-> "malformed", password |-> ""]}

InitLogin ==
  /\ config = InitialConfig
  /\ InitOrders
  /\ InitMarket
  /\ Len(notes) = 1
  /\ pobjs = <<>>
  /\ hist = [p \in Procs |-> IF p = "login" THEN [NoHist EXCEPT !.result = "running"]
                                             ELSE NoHist]
  /\ clock = StartTime
  /\ fails = 0
  /\ ticks = 0
  /\ loc = [p \in Procs |-> IF p = "login" THEN Upd(Idle, [pc |-> "lg_sleep", i |-> 1])
                                            ELSE Idle]

\* lines 859-864: the first sleep is over and the file is being read
LG_Wake(p) ==
  /\ p = "login"
  /\ loc[p].pc = "lg_sleep"
  /\ loc' = [loc EXCEPT ![p].pc = "lg_read"]
  /\ UNCHANGED <<remoteVars, config, pobjs, clock, fails, ticks, hist>>

\* lines 871-873: the catch block of loginAdmin logs the error and sleeps
LoginCatch(p, h, err) ==
  /\ loc' = [loc EXCEPT ![p].pc = "lg_retry"]
  /\ hist' = [hist EXCEPT ![p] = [h EXCEPT !.err = err]]
  /\ UNCHANGED <<config, pobjs>>

\* lines 864-870 and 499-511: fs.readFile has called back.  An error makes
\* readAdminFile reject; JSON.parse runs in the callback of fs.readFile,
\* where an exception is no rejection of the promise but an uncaught
\* exception: there is no handler for it, the process ends (pc "crashed")
\* and none of its callbacks runs again (ProcessAlive).
LG_Read(p) ==
  /\ p = "login"
  /\ loc[p].pc = "lg_read"
  /\ UNCHANGED <<remoteVars, clock, fails, ticks>>
  /\ \E file \in AdminFiles :
       CASE file.kind = "missing" ->
              LoginCatch(p, Logged(hist[p], "fail_readAdminFile"), ENoEnt)
         [] file.kind = "malformed" ->
              /\ loc' = [loc EXCEPT ![p].pc = "crashed"]
              /\ hist' = [hist EXCEPT ![p] =
                            [Logged(@, "uncaughtException") EXCEPT
                               !.result = "escaped", !.err = ESyntaxError]]
              /\ UNCHANGED <<config, pobjs>>
         [] file.kind = "null" ->
              LoginCatch(p, Logged(hist[p], "readAdminFile"), ETypeError)
         [] OTHER ->
              /\ config' = [config EXCEPT !.adminPass = file.password]
              /\ loc' = [loc EXCEPT ![p].pc = "lg_token"]
              /\ hist' = [hist EXCEPT ![p] = Logged(@, "readAdminFile")]
              /\ pobjs' = pobjs

\* lines 870 and 515-537: POST /api/auth has been answered.  The target of
\* the assignment config.jwt = await ... was evaluated before the wait: the
\* token goes into the object `config` referred to when the request was
\* sent, which is the session configuration only if no resetConfig() has
\* replaced it since.
LG_Token(p) ==
  /\ p = "login"
  /\ loc[p].pc = "lg_token"
  /\ UNCHANGED <<remoteVars, clock, ticks>>
  /\ \E r \in Responses(CfgOf(loc[p]).adminPass = ADMIN_PASSWORD, {E401}) :
       /\ Count(r)
       /\ IF ~r.ok
          THEN /\ loc' = [loc EXCEPT ![p].pc = "lg_retry", ![p].cfg = <<>>]
               /\ hist' = [hist EXCEPT ![p] =
                             [Logged(@, "fail_getToken") EXCEPT !.err = r.err]]
               /\ config' = config
               /\ pobjs' = Collect(config', loc', pobjs)
          ELSE /\ config' = IF loc[p].cfg = <<>> THEN [config EXCEPT !.jwt = TOKEN]
                                                 ELSE config
               /\ loc' = [loc EXCEPT ![p].pc = "lg_done", ![p].cfg = <<>>]
               /\ hist' = [hist EXCEPT ![p] =
                             [Logged(@, "getToken") EXCEPT !.result = "returned"]]
               /\ pobjs' = Collect(config', loc', pobjs)

\* lines 873-874: the sleep of the catch block is over and loginAdmin is
\* called again (at most MaxAttempts times in a behaviour)
LG_Retry(p) ==
  /\ p = "login"
  /\ loc[p].pc = "lg_retry"
  /\ loc[p].i < MaxAttempts
  /\ loc' = [loc EXCEPT ![p].pc = "lg_sleep", ![p].i = @ + 1]
  /\ UNCHANGED <<remoteVars, config, pobjs, clock, fails, ticks, hist>>

LoginStep(p) == LG_Wake(p) \/ LG_Read(p) \/ LG_Token(p) \/ LG_Retry(p)

\* no uncaught exception has ended the process
ProcessAlive == \A p \in Procs : loc[p].pc # "crashed"

NextLogin ==
  \/ LoginStep("login")
  \/ ProcessAlive /\ FulfillStep("f1")
  \/ ProcessAlive /\ ClockTick

SpecLogin == InitLogin /\ [][NextLogin]_vars

\* C26: loginAdmin signals no error outward; every failure of reading the
\* credentials or of authentication leads to the retry; an authentication
\* that succeeds stores the token in the session configuration; once it has
\* succeeded no further attempt is made and the token stays.
C26_LoginRetries ==
  /\ [](loc["login"].pc # "crashed" /\ hist["login"].result # "escaped")
  /\ [][/\ loc["login"].pc \in {"lg_read", "lg_token"}
        /\ loc'["login"].pc \notin {loc["login"].pc, "lg_token", "lg_done"}
        => loc'["login"].pc = "lg_retry"]_vars
  /\ [][loc["login"].pc = "lg_token" /\ loc'["login"].pc = "lg_done" =>
          config'.jwt = TOKEN]_vars
  /\ [][loc["login"].pc = "lg_done" =>
          loc'["login"].pc = "lg_done" /\ config'.jwt = TOKEN]_vars

\* the step in which a fulfillment callback p calls resetConfig (line 986)
Resets(p) == hist'[p].log # hist[p].log /\ EndsWith(hist'[p].log, <<"resetConfig">>)

\* the step in which a fulfillment callback p ends in its catch block
Aborts(p) == hist[p].result = "running" /\ hist'[p].result = "caught"

\* C27: the resetConfig that ends a fulfillment cycle clears the scratch
\* fields of the session configuration (no notification, no private record,
\* renewal flag false) and keeps the marketplace credentials, the admin
\* password and the session token; a cycle that aborts leaves the session
\* configuration as it is.
C27_ResetKeepsCredentials ==
  /\ [][\A p \in FProcs : Resets(p) =>
          /\ config'.obNotice = <<>>
          /\ config'.devicePrivateData = 0
          /\ config'.isRenewal = FALSE
          /\ config'.apiCredentials = config.apiCredentials
          /\ config'.clientId = config.clientId
          /\ config'.adminUser = config.adminUser
          /\ config'.adminPass = config.adminPass
          /\ config'.jwt = config.jwt]_vars
  /\ [][\A p \in FProcs : Aborts(p) => config' = config]_vars

(***************************************************************************)
(* getNewOBNotifications called on its own, for every answer of the        *)
(* marketplace with up to MaxNotes notifications.  The answer's `unread`   *)
(* is the marketplace's count of unread notifications: those of the list,  *)
(* or more when the list is one page of several.                           *)
(***************************************************************************)
MaxNotes == 3

NoteIds == {"n1", "n2", "n3"}

SomeNotes ==
  {[Note(id, "order", "o1", RentalSlug(DevA)) EXCEPT !.read = r] :
     id \in NoteIds, r \in BOOLEAN}

NoteLists == UNION {[1..n -> SomeNotes] : n \in 0..MaxNotes}

\* what openbazaar.getNotifications resolves to, or the error it is rejected
\* with
NotificationAnswers ==
  {[r |-> Ok, unread |-> Len(Unread(ns)) + more, notifications |-> ns] :
     ns \in NoteLists, more \in {0, 1}}
    \cup {[r |-> Natural(e), unread |-> 0, notifications |-> <<>>] : e \in RemoteErrors}

InitNotifications == InitDirect

\* getNewOBNotifications(config), lines 286-288: the request is sent
N_Call(p) == DirectCall(p, "n_wait")

\* lines 288-306: the request is answered; the catch block logs a
\* rejection and throws it again
N_Answer(p) ==
  \E a \in NotificationAnswers :
    IF a.r.ok
    THEN DirectAnswer(p, "n_wait", a, <<GetNewOBNotifications(a)>>, NoErr)
    ELSE DirectAnswer(p, "n_wait", a, <<>>, a.r.err)

NextNotifications ==
  \/ N_Call("caller") \/ N_Answer("caller")
  \/ \E p \in FProcs : QuietTick(p)

SpecNotifications == InitNotifications /\ [][NextNotifications]_vars

\* the positions of the unread notifications among the first k of ns
UnreadUpTo(ns, k) == {i \in 1..k : ~ns[i].read}

\* C28: getNewOBNotifications returns exactly the notifications whose read
\* flag is false, in their original order: its j-th result is the
\* notification at the position of the j-th unread one, and the result is
\* empty when no notification is unread.
C28_UnreadInOrder ==
  \A p \in {"caller"} : hist[p].outcome # <<>> =>
    LET ns == loc[p].answer[1].notifications
        out == hist[p].outcome[1]
    IN /\ Len(out) = Cardinality(UnreadUpTo(ns, Len(ns)))
       /\ \A k \in UnreadUpTo(ns, Len(ns)) :
            out[Cardinality(UnreadUpTo(ns, k))] = ns[k]
       /\ UnreadUpTo(ns, Len(ns)) = {} => out = <<>>

C28_Witness ==
  /\ hist["caller"].outcome # <<>>
  /\ LET ns == loc["caller"].answer[1].notifications
     IN /\ Len(ns) = 3
        /\ ~ns[1].read /\ ns[2].read /\ ~ns[3].read
        /\ ns[1].notificationId = "n2" /\ ns[3].notificationId = "n1"
        /\ hist["caller"].outcome[1] = <<ns[1], ns[3]>>

\* callbacks p and q of the fulfillment loop are both at work, on different
\* notifications
Overlapping(p, q) ==
  /\ p # q
  /\ loc[p].thisNotice # <<>>
  /\ loc[q].thisNotice # <<>>
  /\ loc[p].thisNotice[1].notificationId # loc[q].thisNotice[1].notificationId

\* C29: while two fulfillment ticks overlap on different notifications,
\* each tick's update-expiration uses the renewal flag of its own
\* notification, and each tick's payment object is computed from the order
\* of its own notification and appended to the private record of its own
\* notification's device.
C29_NoInterference ==
  \A p, q \in FProcs : Overlapping(p, q) =>
    LET n == loc[p].thisNotice[1]
    IN /\ \A k \in 1..Len(hist[p].ue) :
            hist[p].ue[k].isRenewal = Contains(n.slug, RENEWAL)
       /\ loc[p].pc \in {"pay_order", "pay_put"} => loc[p].orderId = n.orderId
       /\ loc[p].pc = "pay_put" =>
            /\ loc[p].bodyId = PrivOf(LastToken(n.slug))
            /\ loc[p].body # <<>>
            /\ loc[p].body[Len(loc[p].body)].payQty = Net(OrderInfo(n.orderId).value)

\* the first unread notification of the marketplace is not an order
Blocked ==
  LET found == Unread(notes)
  IN found # <<>> /\ found[1].type # "order"

NoneAtWork == \A p \in FProcs : loc[p].thisNotice = <<>>

\* C30: a fulfillment tick works on the first unread notification only, and
\* a tick whose first unread notification is not an order leaves it unread:
\* while a notification that is not an order is the first unread one, no
\* step marks a notification read, fulfils an order or takes a notification
\* to work on.
C30_NonOrderBlocks ==
  /\ [][\A p \in FProcs :
          loc[p].thisNotice = <<>> /\ loc'[p].thisNotice # <<>> =>
            loc'[p].thisNotice[1] = Unread(notes)[1]]_vars
  /\ [][Blocked /\ NoneAtWork =>
          /\ notes' = notes
          /\ fulfillCount' = fulfillCount
          /\ NoneAtWork']_vars

\* a second tick has ended, with an unread order still behind the first
\* unread notification
C30_Witness ==
  /\ Blocked
  /\ ticks = 2
  /\ AllIdle
  /\ hist["f1"].result = "returned"
  /\ Len(Unread(notes)) = 2
  /\ Unread(notes)[2].type = "order"
  /\ fulfillCount[Unread(notes)[2].orderId] = 0

(***************************************************************************)
(* The Listed-Device Health Loop with a timer that never stops: every      *)
(* awaited call is answered and the timer fires again and again, also     *)
(* while the previous callback still waits.  The first of the two listed   *)
(* devices may be expired and may have no contract reference; the second   *)
(* is stale.                                                               *)
(***************************************************************************)
\* lines 1182-1184, 1071-1072
L_TimerLive(p) ==
  /\ p \in LProcs
  /\ loc[p].pc = "idle"
  /\ p = "listed2" => loc["listed"].pc # "idle"
  /\ loc' = [loc EXCEPT ![p] = Upd(Idle, [pc |-> "l_listings"])]
  /\ hist' = [q \in Procs |->
                IF q = p
                THEN [NoHist EXCEPT !.result = "running",
                                    !.alone = \A o \in LProcs \ {p} : loc[o].pc = "idle"]
                ELSE IF q \in LProcs /\ loc[q].pc # "idle"
                THEN [hist[q] EXCEPT !.alone = FALSE]
                ELSE hist[q]]
  /\ UNCHANGED <<remoteVars, config, pobjs, clock, fails, ticks>>

InitStarve ==
  /\ InitSession
  /\ InitOrders
  /\ \E xa \in {Later, Past}, ka \in {"ka", NULL} :
       devices = [d \in DeviceIds |->
                    IF d = DevA THEN Device(d, Fresh, xa, ka)
                    ELSE Device(d, Stale, Later, "kb")]
  /\ privs = [k \in {PrivOf(d) : d \in DeviceIds} |-> Private(k, <<>>)]
  /\ rented = <<>>
  /\ contracts = [k \in {"ka", "kb"} |->
                    Contract(RentalSlug(IF k = "ka" THEN DevA ELSE DevB), Later)]
  /\ listings = <<RentalSlug(DevA), RentalSlug(DevB)>>
  /\ notes = <<>>
  /\ fulfillCount = [o \in OrderIds |-> 0]

StarveStep(p) ==
  \/ L_TimerLive(p) \/ L_Listings(p) \/ L_Public(p) \/ L_RmListing(p) \/ L_Contract(p)
  \/ Helpers(p)

NextStarve == (\E p \in LProcs : StarveStep(p)) \/ ClockTick

SpecStarve ==
  InitStarve /\ [][NextStarve]_vars /\ \A p \in LProcs : WF_vars(StarveStep(p))

\* the marketplace lists device d, whose record is stale or past its
\* expiration plus the buffer
ListedDue(d) ==
  /\ \E k \in 1..Len(listings) : LastToken(listings[k]) = d
  /\ d \in DOMAIN devices
  /\ \/ TooLate(clock, devices[d].checkinTimeStamp)
     \/ Expired(clock, devices[d].expiration)

\* a tick of the listed-device loop has called removeOBListing for device d
RemovalAttempted(d) == \E p \in LProcs : InList(hist[p].attempted, d)

\* C31: every listing whose device is stale or expired is eventually
\* examined by a tick of the listed-device loop that attempts its removal,
\* unless the device stops being stale or expired or the listing goes.
C31_DueListingEventuallyAttempted ==
  \A d \in DeviceIds : ListedDue(d) ~> (RemovalAttempted(d) \/ ~ListedDue(d))

(***************************************************************************)
(* prorate, lines 595-710, with savePayments (712-742) and refund          *)
(* (747-766), called on its own for a device whose private record holds up *)
(* to MaxPayments payment objects, or no payments field.                   *)
(***************************************************************************)
MaxPayments == 3

\* line 625: 1000 * 60 * 60 * 24 milliseconds
ONE_DAY == Minute * 60 * 24

\* payment objects as addPaymentObject stores them; payTime is missing from
\* the third, as it is from every object stored with config.expiration unset
PaymentChoices ==
  {[payTime |-> Later, payQty |-> 1690, refundAddr |-> "addr1"],
   [payTime |-> StartTime + ONE_DAY, payQty |-> 1697, refundAddr |-> "addr2"],
   [payTime |-> INVALID_DATE, payQty |-> 1690, refundAddr |-> "addr1"],
   [payTime |-> StartTime - ONE_DAY - 144 * Minute, payQty |-> 1690,
    refundAddr |-> "addr2"]}

PaymentLists == UNION {[1..n -> PaymentChoices] : n \in 0..MaxPayments}

\* a private record with or without its payments field
PrivateChoices(id) == {[_id |-> id]} \cup {Private(id, payments) : payments \in PaymentLists}

\* line 609: the negation of !pmtAry || pmtAry.length === 0
HasPayments(devicePrivateData) ==
  "payments" \in DOMAIN devicePrivateData /\ devicePrivateData.payments # <<>>

InitProrate ==
  /\ config = LoggedInConfig
  /\ InitOrders
  /\ devices = [d \in {DevA} |-> Device(d, Fresh, Later, "")]
  /\ \E private \in PrivateChoices("pa") : privs = [k \in {"pa"} |-> private]
  /\ rented = <<>> /\ contracts = <<>> /\ listings = <<>> /\ notes = <<>>
  /\ fulfillCount = [o \in OrderIds |-> 0]
  /\ pobjs = <<>>
  /\ hist = [p \in Procs |-> IF p = "caller" THEN [NoHist EXCEPT !.result = "running"]
                                              ELSE NoHist]
  /\ clock \in StartTime..(StartTime + MaxClock)
  /\ fails = 0
  /\ ticks = 0
  /\ loc = [p \in Procs |->
              IF p = "caller"
              THEN Upd(Idle, [pc |-> "pr_get", devicePublicModel |-> <<devices[DevA]>>])
              ELSE Idle]

\* Array.prototype.pop(): the array without its last element
Popped(ary) == IF ary = <<>> THEN <<>> ELSE SubSeq(ary, 1, Len(ary) - 1)

\* the floor of the binary logarithm of n >= 1
RECURSIVE Log2(_)
Log2(n) == IF n < 2 THEN 0 ELSE 1 + Log2(n \div 2)

\* the binary exponent of the quotient a / b, for a > 0 and b > 0
RECURSIVE Exponent(_, _)
Exponent(a, b) == IF a >= b THEN Log2(a \div b) ELSE Exponent(2 * a, b) - 1

\* lines 626-628: Math.floor(payQty * (refundTime / oneDay)), computed in
\* double precision, the division first.  oneDay is 32 * 45 minutes, so the
\* quotient is the double nearest to refundTime / 45, divided by 32 without
\* error.  The two roundings (of the quotient, of the product) move the
\* result by far less than 1/1440: the floor differs from that of the exact
\* value only where payQty * refundTime is a whole number k of days and
\* refundTime / 45 is no double.  There r is the remainder by 45 of the
\* quotient's 53-bit significand (2^12 = 91 * 45 + 1): the quotient is
\* rounded down by r/45 of its last place for r <= 22, up by (45 - r)/45
\* otherwise; the product is rounded away from 32 * k when that error,
\* times payQty, exceeds half the spacing of the doubles next to 32 * k
\* (`half`, in 1/45 of the quotient's last place, doubled).
FlooredProduct(payQty, refundTime) ==
  LET a == IF refundTime < 0 THEN -refundTime ELSE refundTime
      k == (payQty * a) \div ONE_DAY
      ex == Exponent(a, 45)
      r == ((a % 45) * (2^((52 - ex) % 12) % 45)) % 45
      half == 45 * 2^(5 + Log2(k) - ex)
      below == r <= 22 /\ payQty * r * (IF k = 2^Log2(k) THEN 4 ELSE 2) > half
      above == r > 22 /\ payQty * (45 - r) * 2 > half
  IN IF (payQty * a) % ONE_DAY # 0 \/ a % 45 = 0 \/ payQty = 0
     THEN (payQty * refundTime) \div ONE_DAY
     ELSE IF refundTime > 0
     THEN (IF below THEN k - 1 ELSE k)
     ELSE (IF above THEN -k - 1 ELSE -k)

\* lines 616-630: <<>> stands for NaN, the result for a payTime that is no
\* date
RefundSatoshis(lastPayment, now) ==
  IF GetTime(lastPayment.payTime) = INVALID_DATE THEN <<>>
  ELSE <<FlooredProduct(lastPayment.payQty, GetTime(lastPayment.payTime) - now)>>

\* lines 598-643: the private record arrives; the last payment is popped at
\* line 612, the array is popped again at line 639, and savePayments sends
\* the PUT of what is left
PR_Get(p) ==
  /\ p = "caller"
  /\ loc[p].pc = "pr_get"
  /\ UNCHANGED <<remoteVars, clock, ticks>>
  /\ \E privateId \in {loc[p].devicePublicModel[1].privateData} :
     \E r \in DevicePrivateResponses(privateId) :
       /\ Count(r)
       /\ IF ~r.ok
          THEN Catch(p, Logged(hist[p], "fail_getDevicePrivateModel"), r.err)
          ELSE IF privateId \notin DOMAIN privs
          THEN Catch(p, Logged(hist[p], "fail_prorate"), ETypeError)
          ELSE IF ~HasPayments(privs[privateId])
          THEN Return(p, hist[p])
          ELSE \E pmtAry \in {privs[privateId].payments} :
                 \E lastPayment \in {pmtAry[Len(pmtAry)]} :
                        Goto(p, Upd(loc[p],
                                    [pc |-> "pr_save", cfg |-> <<>>,
                                     body |-> Popped(Popped(pmtAry)),
                                     bodyId |-> privateId,
                                     data |-> <<[addr |-> lastPayment.refundAddr,
                                                 qty |-> RefundSatoshis(lastPayment, clock)]>>]),
                             hist[p])

\* lines 643-650 and 747-766: the rental API has stored the payments.
\* refund returns at once for a quantity that is 0 or NaN; otherwise it
\* reads the undeclared variable obConfig at line 761, a ReferenceError
\* that prorate rethrows.
PR_Save(p) ==
  /\ p = "caller"
  /\ loc[p].pc = "pr_save"
  /\ UNCHANGED <<devices, rented, contracts, listings, notes, fulfillCount, orders, clock, ticks>>
  /\ \E r \in Responses(loc[p].bodyId \in DOMAIN privs, {E404}) :
       /\ Count(r)
       /\ IF ~r.ok
          THEN /\ privs' = privs
               /\ Catch(p, Logged(hist[p], "fail_savePayments"), r.err)
          ELSE /\ privs' = [privs EXCEPT ![loc[p].bodyId].payments = loc[p].body]
               /\ \E refundObj \in {loc[p].data[1]} :
                    IF refundObj.addr = "" \/ refundObj.qty = <<>> \/ refundObj.qty = <<0>>
                    THEN Return(p, Logged(hist[p], "savePayments"))
                    ELSE Catch(p, Logged(Logged(hist[p], "savePayments"), "fail_refund"),
                               EReferenceError)

ProrateStep(p) == PR_Get(p) \/ PR_Save(p)

NextProrate == ProrateStep("caller")

SpecProrate == InitProrate /\ [][NextProrate]_vars

\* C32: prorate sends to the rental API, and the rental API stores, the
\* payment sequence without its last object, all earlier objects in place;
\* for a private record without payments it ends at once, with nothing
\* changed and no refund.
C32_ProratePopsLast ==
  /\ [][loc["caller"].pc = "pr_get" /\ loc'["caller"].pc = "pr_save" =>
          loc'["caller"].body = Popped(privs["pa"].payments)]_vars
  /\ [][privs' # privs => privs'["pa"].payments = Popped(privs["pa"].payments)]_vars
  /\ [][/\ loc["caller"].pc = "pr_get"
        /\ ~HasPayments(privs["pa"])
        => /\ loc'["caller"].pc \in {"pr_get", "idle"}
           /\ privs' = privs
           /\ ~InList(hist'["caller"].log, "fail_refund")]_vars

====
